---- MODULE Spec2Model ----
(***************************************************************************)
(* Model of the batch mask-compositing engine of akh1lk/torque:            *)
(* RGBAProcessor::batch_create_rgba_optimized, create_rgba_single and      *)
(* get_optimization_info (src/components/GradientText.tsx, the C++ part    *)
(* that starts at line 77).                                                 *)
(*                                                                         *)
(* Loop indices are 0-based as in the source: task i is iteration i of the *)
(* parallel for of line 142.                                               *)
(***************************************************************************)
EXTENDS Integers, Sequences, FiniteSets, TLC

(***************************************************************************)
(* Bounds of the model and constants of the program.                       *)
(***************************************************************************)
\* Largest image_paths.size() a batch call is given.
MaxImages == 3

\* std::min(4, hardware_concurrency()), line 134.
ThreadCap == 4

\* aligned(rgb_ptr, mask_data, rgba_ptr: 32), lines 176 and 290.
SimdAlign == 32

\* Values std::thread::hardware_concurrency() returns on the modelled
\* machines; 0 is "not computable".
HwValues == {0, 1, 2, 8}

\* (height, width) of the mask planes a caller passes.
MaskShapes == {<<2, 8>>}

\* Address of the mask buffer modulo SimdAlign (numpy aligns data to 16).
MaskBases == {0, 16}

\* Wall-clock durations of the scheduling phase, in microseconds.
ElapsedUs == {250, 4000}

\* The exception types the calls of the task body throw, and the types
\* that derive from std::exception.
ThrownTypes == {"cv::Exception"}
StdExceptionTypes == {"cv::Exception", "std::invalid_argument", "std::bad_alloc"}

VARIABLES
    openmp,          \* _OPENMP is defined in this build (lines 89, 136, 316)
    hw,              \* std::thread::hardware_concurrency() of the machine
    phase,           \* "idle" | "running" | "returned" | "raised" | "aborted"
    num_images,      \* image_paths.size()
    output_paths,    \* [0..output_paths.size()-1 -> path]
    masks_array,     \* [ndim, shape, base] of the mask volume
    height, width,   \* masks_buf.shape[1], masks_buf.shape[2]
    processed,       \* std::atomic<int> processed
    errors,          \* std::atomic<int> errors
    output_files,    \* the pre-sized slot vector, [0..num_images-1 -> path]
    max_threads,     \* min(4, hardware_concurrency())
    team,            \* threads that execute the parallel for
    next_i,          \* next unclaimed iteration of the dynamic schedule
    pc,              \* [task -> position in the loop body]
    outcome,         \* [task -> how the iteration ended]
    results,         \* <<>> or <<the returned py::dict>>
    reads,           \* [task -> number of cv::imread calls]
    writes,          \* [task -> number of cv::imwrite calls]
    files,           \* output paths at which cv::imwrite created a file
    incs,            \* [task -> [p, e]]: fetch_adds the task performed
    claims,          \* [task -> number of times the schedule handed it out]
    out_of_order,    \* a task has ended while a task of lower index had not
    workers_used,    \* threads of the team that have executed an iteration
    image,           \* [task -> the cv::Mat image of its iteration] (line 145)
    nthreads_var,    \* the nthreads-var ICV of the OpenMP runtime (line 137)
    info,            \* <<>> or <<the dict get_optimization_info returned>>
    batch_data,      \* <<>> or <<the pixel data behind the paths of a batch>>
    task_in,         \* the inputs of one task given to both entry points
    batch_task,      \* <<>> or <<what the loop body of the batch did with them>>
    single_call,     \* <<>> or <<what create_rgba_single did with them>>
    runs,            \* what each run of the compositor on task_in built, in order
    out_file,        \* the data of the file at the output path of task_in
    disk,            \* [path -> the data of the file at that path]
    file_ops,        \* the <<task, "read" | "write", path>> the library calls did
    selectedFile,    \* UploadPage: useState<File | null>(null), part_001 line 12
    scanTitle,       \* UploadPage: useState(""), line 13
    isUploading,     \* UploadPage: useState(false), line 15
    uploadProgress,  \* UploadPage: useState(0), line 16
    uploadSuccess,   \* UploadPage: useState(false), line 17
    progressInterval, \* the setInterval of line 33 is set and not cleared
    completion,      \* the setTimeout of line 44 is pending
    ticks            \* callbacks of the interval run since handleUpload

build == <<openmp, hw>>
one_task == <<batch_data, task_in, batch_task, single_call>>
process == <<nthreads_var, info>>
twice == <<runs, out_file>>
storage == <<disk, file_ops>>
page == <<selectedFile, scanTitle, isUploading, uploadProgress, uploadSuccess>>
timers == <<progressInterval, completion, ticks>>
others == <<twice, storage, page, timers>>
rest == <<build, one_task, process, others>>
inputs == <<num_images, output_paths, masks_array, height, width>>
shared == <<processed, errors, output_files>>
pool == <<max_threads, team, next_i>>
ghost == <<reads, writes, files, incs, claims, out_of_order, workers_used>>
vars == <<build, one_task, process, others, phase, inputs, shared, pool, pc, outcome, image,
          results, ghost>>

(***************************************************************************)
(* Helpers.                                                                 *)
(***************************************************************************)
Min(a, b) == IF a < b THEN a ELSE b

\* The iterations of the parallel for of the call in progress.
Tasks == DOMAIN pc

\* The output path a caller reserves for task i.
OutName(i) == "out" \o ToString(i) \o ".png"

\* The output path lists of length m a caller passes: every path named, or
\* one of them the empty string.
OutputPathLists(m) ==
    {[i \in 0 .. (m - 1) |-> OutName(i)]}
    \cup {[i \in 0 .. (m - 1) |-> IF i = k THEN "" ELSE OutName(i)] : k \in 0 .. (m - 1)}

\* The mask arrays a caller passes for a batch of n images.
MaskArrays(n) ==
    {[ndim |-> 3, shape |-> <<p, s[1], s[2]>>, base |-> b] :
        p \in {n, n + 1}, s \in MaskShapes, b \in MaskBases}
    \cup {[ndim |-> 2, shape |-> <<s[1], s[2]>>, base |-> b] :
        s \in MaskShapes, b \in MaskBases}
    \cup {[ndim |-> 4, shape |-> <<n, 1, s[1], s[2]>>, base |-> b] :
        s \in MaskShapes, b \in MaskBases}

\* The pre-flight checks without the comparison of shape[0] to num_images.
PreflightOkNoPlaneCheck(n, outs, m) ==
    /\ n # 0
    /\ n = outs
    /\ m.ndim = 3

\* Lines 109-120: the three pre-flight checks, in the order of the code
\* (shape[1] is masks_buf.shape[0]: tuples are 1-based).
PreflightOk(n, outs, m) ==
    /\ n # 0
    /\ n = outs
    /\ m.ndim = 3
    /\ m.shape[1] = n

\* The shape of the image is not compared to the mask planes.
DimensionsUnchecked(rows, cols, h, w) == TRUE

\* Lines 146 and 153: the task goes on to compositing when the image is not
\* empty and has the rows and columns of the mask planes.
DimensionsMatch(rows, cols, h, w) == ~(rows # h \/ cols # w)

\* The shapes cv::imread returns for a readable image.
ImageShapes(h, w) == {<<h, w>>, <<w, h>>, <<h + 1, w>>, <<h, w + 1>>}

\* Line 165: mask_data = masks_data + i * height * width, as an address
\* modulo SimdAlign.
MaskDataAlign(base, i, h, w) == (base + i * h * w) % SimdAlign

\* Lines 176-178: the loop asserts 32-byte alignment of mask_data.  Where
\* the assertion is false the behaviour is undefined: the vector loop runs
\* as the scalar loop would, or an aligned load traps.  Without _OPENMP the
\* pragma is ignored.
SimdOutcomes(base, i, h, w) ==
    IF openmp /\ MaskDataAlign(base, i, h, w) # 0 THEN {"ok", "trap"} ELSE {"ok"}

\* cv::imwrite finds its encoder by the extension of the path: it throws
\* for a path without one, so it returns true only for a named path.
ImwriteOutcomes(path) ==
    IF path = "" THEN {"throw"} ELSE {"ok", "fail", "throw"}

\* Line 202: catch (const std::exception& e).
CaughtAtTaskBoundary(type) == type \in StdExceptionTypes

\* A counter that counts down.
FetchSub(counter) == counter - 1

\* std::atomic<int>::fetch_add(1).
FetchAdd(counter) == counter + 1

\* Lines 213-218: valid_output_files, the slots that are not empty, in slot
\* order.
RECURSIVE CompactFrom(_, _, _)
CompactFrom(slots, i, n) ==
    IF i >= n THEN <<>>
    ELSE (IF slots[i] # "" THEN <<slots[i]>> ELSE <<>>) \o CompactFrom(slots, i + 1, n)

\* The slot vector returned as it is, empty slots included.
CompactKeepAll(slots, n) == [k \in 1 .. n |-> slots[k - 1]]

Compact(slots, n) == CompactFrom(slots, 0, n)

\* The low and the high half of the 32 bits of an int, two's complement.
Lo16(a) == a % 65536
Hi16(a) == (a \div 65536) % 65536

\* a * b modulo 2^16 for a and b below 2^16, no intermediate value reaching
\* 2^31.
MulMod16(a, b) == (((a * (b \div 256)) % 256) * 256 + a * (b % 256)) % 65536

\* a * b \div 2^16 for a and b below 2^16.
MulHigh16(a, b) ==
    LET x == a * (b \div 256)
        y == a * (b % 256)
    IN  (x \div 256) + (((x % 256) * 256 + y) \div 65536)

\* The int whose 32 bits have the high half hi and the low half lo.
Int32(hi, lo) == IF hi >= 32768 THEN (hi - 65536) * 65536 + lo ELSE hi * 65536 + lo

\* int * int of the build: the low 32 bits of the product (imul).  A product
\* outside the int range is an overflow of a signed int, for which the
\* language gives no result; the result of every build is an int.
Int32Mul(a, b) ==
    Int32((MulHigh16(Lo16(a), Lo16(b)) + MulMod16(Hi16(a), Lo16(b))
              + MulMod16(Lo16(a), Hi16(b))) % 65536,
          MulMod16(Lo16(a), Lo16(b)))

\* The pixels of one image, whatever the number of processed tasks.
TotalPixelsOfOneImage(p, h, w) == h * w

\* Line 232: processed.load() * height * width, the product of three ints
\* taken from left to right, before it is converted to double.
TotalPixels(p, h, w) == Int32Mul(Int32Mul(p, h), w)

\* The dict without the key of the python format that the engine never
\* fills.
ReportWithoutUploaded(p, e, slots, n, h, w, us, threads) ==
    [processed |-> p,
     errors |-> e,
     output_files |-> Compact(slots, n),
     processing_time_ms |-> [num |-> us, den |-> 1000],
     avg_time_per_image_ms |-> IF p > 0 THEN [num |-> us, den |-> 1000 * p]
                                         ELSE [num |-> 0, den |-> 1],
     throughput_mpix_per_sec |-> [num |-> TotalPixels(p, h, w), den |-> us],
     threads_used |-> threads]

\* Lines 221-235: the returned dict.  The doubles are kept exact, a value
\* being the quotient [num, den]: processing_time_ms is duration.count() /
\* 1000.0 for a duration of us microseconds, and (total_pixels / 1e6) /
\* (processing_time_ms / 1000.0) is total_pixels / us.
Report(p, e, slots, n, h, w, us, threads) ==
    [processed |-> p,
     errors |-> e,
     output_files |-> Compact(slots, n),
     uploaded |-> 0,
     processing_time_ms |-> [num |-> us, den |-> 1000],
     avg_time_per_image_ms |-> IF p > 0 THEN [num |-> us, den |-> 1000 * p]
                                         ELSE [num |-> 0, den |-> 1],
     throughput_mpix_per_sec |-> [num |-> TotalPixels(p, h, w), den |-> us],
     threads_used |-> threads]

\* Iterations that have been handed out and have not ended.
InProgress == {i \in Tasks : pc[i] \notin {"unclaimed", "done"}}

(***************************************************************************)
(* Initial state: the module is loaded, no call has been made.             *)
(***************************************************************************)
\* No call is in progress: the locals of a call do not exist.
NoCall ==
    /\ phase = "idle"
    /\ num_images = 0
    /\ output_paths = <<>>
    /\ masks_array = [ndim |-> 3, shape |-> <<0, 0, 0>>, base |-> 0]
    /\ height = 0
    /\ width = 0
    /\ processed = 0
    /\ errors = 0
    /\ output_files = <<>>
    /\ max_threads = 0
    /\ team = 0
    /\ next_i = 0
    /\ pc = <<>>
    /\ outcome = <<>>
    /\ results = <<>>
    /\ reads = <<>>
    /\ writes = <<>>
    /\ files = {}
    /\ incs = <<>>
    /\ claims = <<>>
    /\ out_of_order = FALSE
    /\ workers_used = 0
    /\ image = <<>>

\* No single task is being compared.
NoTask == [kind |-> "none"]

\* omp_get_num_procs(): the processors the runtime sees, at least one.
NumProcs == IF hw >= 1 THEN hw ELSE 1

\* The value of nthreads-var when the module is loaded: one thread per
\* processor (OMP_NUM_THREADS is not set).
DefaultNthreads == NumProcs

\* No cv::Mat: the iteration has not read its image, or has left the scope
\* of the try block.
NoImage == [kind |-> "none", rows |-> 0, cols |-> 0]

\* The compositor has not been run on one task twice, and no file of a
\* batch is followed.
NoFiles ==
    /\ runs = <<>>
    /\ out_file = <<>>
    /\ disk = <<>>
    /\ file_ops = {}

\* UploadPage as it is mounted: the useState defaults of part_001 lines
\* 12-17, no timer set.
PageInit ==
    /\ selectedFile = "null"
    /\ scanTitle = <<>>
    /\ isUploading = FALSE
    /\ uploadProgress = 0
    /\ uploadSuccess = FALSE
    /\ progressInterval = FALSE
    /\ completion = FALSE
    /\ ticks = 0

Init ==
    /\ openmp \in BOOLEAN
    /\ hw \in HwValues
    /\ NoFiles
    /\ PageInit
    /\ nthreads_var = DefaultNthreads
    /\ info = <<>>
    /\ NoCall
    /\ batch_data = <<>>
    /\ task_in = NoTask
    /\ batch_task = <<>>
    /\ single_call = <<>>

(***************************************************************************)
(* batch_create_rgba_optimized, lines 101-138: entry, pre-flight checks,   *)
(* counters, slots and the thread count.                                   *)
(***************************************************************************)
\* Lines 136-141: the team of the parallel for.  omp_set_num_threads with a
\* value below 1 is not conforming; libgomp and libomp both run one thread.
TeamSize(threads) ==
    IF openmp THEN (IF threads >= 1 THEN threads ELSE 1) ELSE 1

\* Lines 136-138: omp_set_num_threads(max_threads) stores its argument in
\* nthreads-var (1 for an argument below 1); without _OPENMP the call is
\* not compiled.
SetNumThreads(threads) ==
    IF openmp THEN (IF threads >= 1 THEN threads ELSE 1) ELSE nthreads_var

BatchCall ==
    /\ phase = "idle"
    /\ \E n \in 0 .. MaxImages, outs \in 0 .. MaxImages :
       \E paths \in OutputPathLists(outs), m \in MaskArrays(n) :
          /\ num_images' = n
          /\ output_paths' = paths
          /\ masks_array' = m
          /\ results' = <<>>
          /\ files' = {}
          /\ processed' = 0
          /\ errors' = 0
          /\ next_i' = 0
          /\ out_of_order' = FALSE
          /\ IF PreflightOk(n, outs, m)
             THEN /\ phase' = "running"
                  /\ height' = m.shape[2]
                  /\ width' = m.shape[3]
                  /\ output_files' = [i \in 0 .. (n - 1) |-> ""]
                  /\ max_threads' = Min(ThreadCap, hw)
                  /\ team' = TeamSize(Min(ThreadCap, hw))
                  /\ pc' = [i \in 0 .. (n - 1) |-> "unclaimed"]
                  /\ outcome' = [i \in 0 .. (n - 1) |-> "none"]
                  /\ reads' = [i \in 0 .. (n - 1) |-> 0]
                  /\ writes' = [i \in 0 .. (n - 1) |-> 0]
                  /\ incs' = [i \in 0 .. (n - 1) |-> [p |-> 0, e |-> 0]]
                  /\ claims' = [i \in 0 .. (n - 1) |-> 0]
                  /\ image' = [i \in 0 .. (n - 1) |-> NoImage]
                  /\ nthreads_var' = SetNumThreads(Min(ThreadCap, hw))
             ELSE /\ phase' = "raised"
                  /\ height' = 0
                  /\ width' = 0
                  /\ output_files' = <<>>
                  /\ max_threads' = 0
                  /\ team' = 0
                  /\ pc' = <<>>
                  /\ outcome' = <<>>
                  /\ reads' = <<>>
                  /\ writes' = <<>>
                  /\ incs' = <<>>
                  /\ claims' = <<>>
                  /\ image' = <<>>
                  /\ nthreads_var' = nthreads_var
    /\ workers_used' = 0
    /\ info' = <<>>
    /\ UNCHANGED <<build, one_task, others>>

(***************************************************************************)
(* The parallel for of lines 141-206.  One task is one iteration of the    *)
(* loop; the loop body of a task runs on the thread that claimed it.       *)
(***************************************************************************)
\* What cv::imread(path, IMREAD_COLOR) does: an empty Mat, an exception, or
\* a decoded image of some shape.
ImreadResults(h, w) ==
    {[kind |-> "empty", rows |-> 0, cols |-> 0],
     [kind |-> "throw", rows |-> 0, cols |-> 0]}
    \cup {[kind |-> "image", rows |-> s[1], cols |-> s[2]] : s \in ImageShapes(h, w)}

\* The process is terminated inside the parallel region: nothing returns.
TaskAborts(i, how) ==
    /\ pc' = pc
    /\ outcome' = [outcome EXCEPT ![i] = how]
    /\ phase' = "aborted"
    /\ image' = image

\* A per-task failure that ends the whole batch instead of the iteration.
TaskFailsAborts(i, how) == TaskAborts(i, how)

\* An error path that leaves the iteration without errors.fetch_add.
TaskFailsSilently(i, how) ==
    /\ pc' = [pc EXCEPT ![i] = "done"]
    /\ outcome' = [outcome EXCEPT ![i] = how]
    /\ phase' = phase
    /\ image' = [image EXCEPT ![i] = NoImage]

\* The iteration leaves the try block on one of the error paths: what is
\* left of it is the errors.fetch_add of line 148, 156, 199 or 204.  The
\* Mats of the iteration are destroyed with the scope of the try block.
TaskFails(i, how) ==
    /\ pc' = [pc EXCEPT ![i] = "count_error"]
    /\ outcome' = [outcome EXCEPT ![i] = how]
    /\ phase' = phase
    /\ image' = [image EXCEPT ![i] = NoImage]

\* Lines 202-205: an exception thrown in the try block reaches the handler
\* when its type derives from std::exception; another type leaves the
\* parallel region.
TaskThrows(i, type) ==
    IF CaughtAtTaskBoundary(type)
    THEN TaskFails(i, "exception")
    ELSE TaskAborts(i, "escaped")

\* The thread that takes the next iteration is one that has executed an
\* iteration before and is free again, or one of the team that has not
\* executed any: the number of threads that have executed an iteration
\* after it took this one.
ClaimingThreads ==
    (IF workers_used > Cardinality(InProgress) THEN {workers_used} ELSE {})
    \cup (IF workers_used < team THEN {workers_used + 1} ELSE {})

\* Two threads read the iteration counter of the loop before either of them
\* advances it: the iteration is handed out again.
ClaimNotAtomic ==
    /\ phase = "running"
    /\ next_i < num_images
    /\ Cardinality(InProgress) < team
    /\ pc' = [pc EXCEPT ![next_i] = "imread"]
    /\ claims' = [claims EXCEPT ![next_i] = @ + 1]
    /\ next_i' \in {next_i, next_i + 1}
    /\ workers_used' \in ClaimingThreads
    /\ UNCHANGED <<rest, phase, inputs, shared, max_threads, team, outcome, image,
                   results, reads, writes, files, incs, out_of_order>>

\* schedule(dynamic), lines 141-142: a free thread of the team takes the
\* next iteration.
Claim ==
    /\ phase = "running"
    /\ next_i < num_images
    /\ Cardinality(InProgress) < team
    /\ pc' = [pc EXCEPT ![next_i] = "imread"]
    /\ claims' = [claims EXCEPT ![next_i] = @ + 1]
    /\ next_i' = next_i + 1
    /\ workers_used' \in ClaimingThreads
    /\ UNCHANGED <<rest, phase, inputs, shared, max_threads, team, outcome, image,
                   results, reads, writes, files, incs, out_of_order>>

\* Lines 145-158: load the image, check that it is not empty and that it
\* has the shape of the mask planes.
LoadImage(i) ==
    /\ phase = "running"
    /\ pc[i] = "imread"
    /\ reads' = [reads EXCEPT ![i] = @ + 1]
    /\ \E r \in ImreadResults(height, width), t \in ThrownTypes :
          CASE r.kind = "throw" -> TaskThrows(i, t)
            [] r.kind = "empty" -> TaskFails(i, "load_failure")
            [] r.kind = "image" /\ ~DimensionsMatch(r.rows, r.cols, height, width) ->
                  TaskFails(i, "dimension_mismatch")
            [] OTHER ->
                  /\ pc' = [pc EXCEPT ![i] = "composite"]
                  /\ image' = [image EXCEPT ![i] = r]
                  /\ UNCHANGED <<outcome, phase>>
    /\ UNCHANGED <<rest, inputs, shared, pool, results, writes, files, incs, claims,
                   out_of_order, workers_used>>

\* Lines 160-190: cvtColor, the RGBA Mat and the simd loop.
Composite(i) ==
    /\ phase = "running"
    /\ pc[i] = "composite"
    /\ \E cvt \in {"ok", "throw"}, t \in ThrownTypes,
          simd \in SimdOutcomes(masks_array.base, i, height, width) :
          CASE cvt = "throw" -> TaskThrows(i, t)
            [] cvt = "ok" /\ simd = "trap" -> TaskAborts(i, "trap")
            [] OTHER ->
                  /\ pc' = [pc EXCEPT ![i] = "imwrite"]
                  /\ UNCHANGED <<outcome, phase, image>>
    /\ UNCHANGED <<rest, inputs, shared, pool, results, ghost>>

\* Lines 193-194 and 197-199: cv::imwrite and its three results.
Imwrite(i) ==
    /\ phase = "running"
    /\ pc[i] = "imwrite"
    /\ writes' = [writes EXCEPT ![i] = @ + 1]
    /\ \E r \in ImwriteOutcomes(output_paths[i]), t \in ThrownTypes :
          CASE r = "throw" -> TaskThrows(i, t) /\ files' = files
            [] r = "fail" -> TaskFails(i, "write_failure") /\ files' = files
            [] OTHER ->
                  /\ files' = files \cup {output_paths[i]}
                  /\ pc' = [pc EXCEPT ![i] = "store_slot"]
                  /\ UNCHANGED <<outcome, phase, image>>
    /\ UNCHANGED <<rest, inputs, shared, pool, results, reads, incs, claims,
                   out_of_order, workers_used>>

\* The slot taken from the processed counter, that is in completion order.
StoreSlotByCompletion(i) ==
    /\ phase = "running"
    /\ pc[i] = "store_slot"
    /\ output_files' = [output_files EXCEPT ![processed] = output_paths[i]]
    /\ pc' = [pc EXCEPT ![i] = "count_processed"]
    /\ UNCHANGED <<rest, phase, inputs, processed, errors, pool, outcome, image,
                   results, ghost>>

\* The slot of task i given the path of the task after it.
SlotValueOfNextTask(i) == output_paths[(i + 1) % num_images]

\* Line 195: output_files[i] = output_paths[i].
SlotValue(i) == output_paths[i]

StoreSlot(i) ==
    /\ phase = "running"
    /\ pc[i] = "store_slot"
    /\ output_files' = [output_files EXCEPT ![i] = SlotValue(i)]
    /\ pc' = [pc EXCEPT ![i] = "count_processed"]
    /\ UNCHANGED <<rest, phase, inputs, processed, errors, pool, outcome, image,
                   results, ghost>>

\* The iteration of task i ends before one of a lower index has.
Overtakes(i) == \E j \in Tasks : j < i /\ pc[j] # "done"

\* processed++ on a plain int: the update is lost when another thread is
\* between its load and its store of the counter.
CountProcessedRacy(i) ==
    /\ phase = "running"
    /\ pc[i] = "count_processed"
    /\ processed' \in (IF \E j \in Tasks : j # i /\ pc[j] = "count_processed"
                       THEN {processed, processed + 1} ELSE {processed + 1})
    /\ incs' = [incs EXCEPT ![i].p = @ + 1]
    /\ outcome' = [outcome EXCEPT ![i] = "success"]
    /\ pc' = [pc EXCEPT ![i] = "done"]
    /\ image' = [image EXCEPT ![i] = NoImage]
    /\ UNCHANGED <<rest, phase, inputs, errors, output_files, pool, results,
                   reads, writes, files, claims, workers_used>>
    /\ out_of_order' = (out_of_order \/ Overtakes(i))

\* Line 196: processed.fetch_add(1).
CountProcessed(i) ==
    /\ phase = "running"
    /\ pc[i] = "count_processed"
    /\ processed' = FetchAdd(processed)
    /\ incs' = [incs EXCEPT ![i].p = @ + 1]
    /\ outcome' = [outcome EXCEPT ![i] = "success"]
    /\ pc' = [pc EXCEPT ![i] = "done"]
    /\ image' = [image EXCEPT ![i] = NoImage]
    /\ UNCHANGED <<rest, phase, inputs, errors, output_files, pool, results,
                   reads, writes, files, claims, workers_used>>
    /\ out_of_order' = (out_of_order \/ Overtakes(i))

\* errors++ on a plain int: the update is lost when another thread is
\* between its load and its store of the counter.
CountErrorRacy(i) ==
    /\ phase = "running"
    /\ pc[i] = "count_error"
    /\ errors' \in (IF \E j \in Tasks : j # i /\ pc[j] = "count_error"
                    THEN {errors, errors + 1} ELSE {errors + 1})
    /\ incs' = [incs EXCEPT ![i].e = @ + 1]
    /\ pc' = [pc EXCEPT ![i] = "done"]
    /\ UNCHANGED <<rest, phase, inputs, processed, output_files, pool, outcome, image,
                   results, reads, writes, files, claims, workers_used>>
    /\ out_of_order' = (out_of_order \/ Overtakes(i))

\* Lines 148, 156, 199, 204: errors.fetch_add(1).
CountError(i) ==
    /\ phase = "running"
    /\ pc[i] = "count_error"
    /\ errors' = FetchAdd(errors)
    /\ incs' = [incs EXCEPT ![i].e = @ + 1]
    /\ pc' = [pc EXCEPT ![i] = "done"]
    /\ UNCHANGED <<rest, phase, inputs, processed, output_files, pool, outcome, image,
                   results, reads, writes, files, claims, workers_used>>
    /\ out_of_order' = (out_of_order \/ Overtakes(i))

\* A parallel for with nowait semantics: no barrier before line 208.
JoinedNoWait == TRUE

\* Lines 206-246: the implicit barrier at the end of the parallel for, then
\* the timing, the compaction and the returned dict.
AllJoined == \A i \in Tasks : pc[i] = "done"

Aggregate ==
    /\ phase = "running"
    /\ AllJoined
    /\ \E us \in ElapsedUs :
          results' = <<Report(processed, errors, output_files, num_images,
                              height, width, us, max_threads)>>
    /\ phase' = "returned"
    /\ UNCHANGED <<rest, inputs, shared, pool, pc, outcome, image, ghost>>

\* Lines 110-119 and 246-247: the call has raised or returned, and its
\* locals (counters, slots, the dict handed to the caller) are gone.
CallEnds ==
    /\ phase \in {"returned", "raised"}
    /\ phase' = "idle"
    /\ num_images' = 0
    /\ output_paths' = <<>>
    /\ masks_array' = [ndim |-> 3, shape |-> <<0, 0, 0>>, base |-> 0]
    /\ height' = 0
    /\ width' = 0
    /\ processed' = 0
    /\ errors' = 0
    /\ output_files' = <<>>
    /\ max_threads' = 0
    /\ team' = 0
    /\ next_i' = 0
    /\ pc' = <<>>
    /\ outcome' = <<>>
    /\ results' = <<>>
    /\ reads' = <<>>
    /\ writes' = <<>>
    /\ files' = {}
    /\ incs' = <<>>
    /\ claims' = <<>>
    /\ out_of_order' = FALSE
    /\ workers_used' = 0
    /\ image' = <<>>
    /\ UNCHANGED rest

(***************************************************************************)
(* get_optimization_info, lines 313-349.                                   *)
(***************************************************************************)
\* The dict of lines 314-348 in a build made with the flags of the README
\* (-O3 -mavx2 -fopenmp, or the same without -fopenmp).
OptimizationInfo ==
    IF openmp
    THEN [openmp_enabled |-> TRUE,
          omp_max_threads |-> nthreads_var,
          omp_num_procs |-> NumProcs,
          hardware_concurrency |-> hw,
          simd_level |-> "AVX2",
          compiler_optimization |-> TRUE]
    ELSE [openmp_enabled |-> FALSE,
          omp_max_threads |-> 1,
          hardware_concurrency |-> hw,
          simd_level |-> "AVX2",
          compiler_optimization |-> TRUE]

\* A probe that also resets the thread count of the runtime.
GetOptimizationInfoSetsThreads ==
    /\ phase = "idle"
    /\ info' = <<OptimizationInfo>>
    /\ nthreads_var' = NumProcs
    /\ UNCHANGED <<build, one_task, others, phase, inputs, shared, pool, pc, outcome, image,
                   results, ghost>>

\* The caller probes the module between two calls: the static method takes
\* no argument and returns the dict.
GetOptimizationInfo ==
    /\ phase = "idle"
    /\ info' = <<OptimizationInfo>>
    /\ UNCHANGED <<build, one_task, others, nthreads_var, phase, inputs, shared, pool, pc,
                   outcome, image, results, ghost>>

Next ==
    \/ BatchCall
    \/ GetOptimizationInfo
    \/ Claim
    \/ \E i \in Tasks : LoadImage(i)
    \/ \E i \in Tasks : Composite(i)
    \/ \E i \in Tasks : Imwrite(i)
    \/ \E i \in Tasks : StoreSlot(i)
    \/ \E i \in Tasks : CountProcessed(i)
    \/ \E i \in Tasks : CountError(i)
    \/ Aggregate
    \/ CallEnds

Spec == Init /\ [][Next]_vars

\* The steps of a call in progress: the threads of the team and, after the
\* barrier, the calling thread.
BatchSteps ==
    \/ Claim
    \/ \E i \in Tasks : LoadImage(i)
    \/ \E i \in Tasks : Composite(i)
    \/ \E i \in Tasks : Imwrite(i)
    \/ \E i \in Tasks : StoreSlot(i)
    \/ \E i \in Tasks : CountProcessed(i)
    \/ \E i \in Tasks : CountError(i)
    \/ Aggregate

\* The library calls return and the operating system keeps running the
\* threads of a call in progress: a call that can take a step takes one.
FairSpec == Spec /\ WF_vars(BatchSteps)

(***************************************************************************)
(* Properties of the batch call.                                           *)
(***************************************************************************)
\* The dict a returned call handed to its caller.
Returned == phase = "returned"
Rep == results[1]

Succeeded == {i \in Tasks : outcome[i] = "success"}
PerTaskFailures == {"load_failure", "dimension_mismatch", "write_failure"}
Range(f) == {f[k] : k \in DOMAIN f}

\* C1: the report of a batch of N tasks that passed the pre-flight checks
\* has processed + errors = N, whatever the interleaving of the threads and
\* the outcomes of the tasks.
C1_CountersSumToN ==
    Returned => Rep.processed + Rep.errors = num_images

C1_Witness ==
    /\ Returned
    /\ num_images = 3
    /\ team = 4
    /\ out_of_order
    /\ {outcome[i] : i \in Tasks} = {"success", "exception", "load_failure"}

\* C2: the report lists as many output files as it counts processed tasks.
C2_FilesMatchProcessed ==
    Returned => Len(Rep.output_files) = Rep.processed

C2_Witness ==
    /\ Returned
    /\ num_images = 3
    /\ output_paths[1] = ""
    /\ Rep.processed = 2
    /\ Len(Rep.output_files) = 2

\* C3: output_files of the report holds the output paths of the successful
\* tasks in increasing order of their index, whatever the order in which
\* the tasks ended.
C3_FilesInInputOrder ==
    Returned =>
        /\ Len(Rep.output_files) = Cardinality(Succeeded)
        /\ \A i \in Succeeded :
               Rep.output_files[Cardinality({j \in Succeeded : j < i}) + 1] = output_paths[i]

C3_Witness ==
    /\ Returned
    /\ out_of_order
    /\ Succeeded = {0, 2}
    /\ Rep.output_files = <<OutName(0), OutName(2)>>

\* C4: a load failure, a dimension mismatch or a write failure of a task
\* never ends the batch and never keeps another task from its own outcome:
\* the report is made after every task has been read and has ended, every
\* task whose file was written is counted and listed, and a batch of three
\* whose middle task alone fails the dimension check reports processed 2,
\* errors 1 and the outputs of the first and the third task.
C4_FailureIsolation ==
    /\ phase = "aborted" =>
          \E i \in Tasks : outcome[i] \in {"trap", "escaped"}
    /\ phase = "running" =>
          \A i \in Tasks : outcome[i] \in PerTaskFailures => pc[i] \in {"count_error", "done"}
    /\ Returned =>
          /\ \A i \in Tasks :
                /\ reads[i] = 1
                /\ outcome[i] # "none"
                /\ output_paths[i] \in files =>
                      /\ incs[i].p = 1
                      /\ output_paths[i] \in Range(Rep.output_files)
          /\ Rep.processed = Cardinality({i \in Tasks : output_paths[i] \in files})
          /\ (num_images = 3 /\ outcome = [i \in 0 .. 2 |-> IF i = 1 THEN "dimension_mismatch"
                                                                    ELSE "success"]) =>
                /\ Rep.processed = 2
                /\ Rep.errors = 1
                /\ Rep.output_files = <<output_paths[0], output_paths[2]>>

C4_Witness ==
    /\ Returned
    /\ num_images = 3
    /\ outcome = [i \in 0 .. 2 |-> IF i = 1 THEN "dimension_mismatch" ELSE "success"]
    /\ Rep.output_files = <<OutName(0), OutName(2)>>

\* C5: a fault of any kind raised while a task is processed is caught at
\* the task boundary: the batch is not ended by it, and the task ends with
\* errors incremented once and its slot empty.
C5_AnyFaultIsCaught ==
    \A i \in Tasks :
        outcome[i] \in {"exception", "trap", "escaped"} =>
            /\ phase # "aborted"
            /\ pc[i] = "done" => (incs[i] = [p |-> 0, e |-> 1] /\ output_files[i] = "")

\* C6: a call with no image, with path lists of different lengths, or with
\* a mask array that is not 3-D with one plane per image, raises before
\* anything starts: no thread, no read, no file, no count, no report.
CallInputsBad ==
    \/ num_images = 0
    \/ Cardinality(DOMAIN output_paths) # num_images
    \/ masks_array.ndim # 3
    \/ masks_array.shape[1] # num_images

C6_PreflightRaisesFirst ==
    (phase # "idle" /\ CallInputsBad) =>
        /\ phase = "raised"
        /\ team = 0
        /\ pc = <<>>
        /\ reads = <<>>
        /\ writes = <<>>
        /\ files = {}
        /\ processed = 0
        /\ errors = 0
        /\ results = <<>>

C6_Witness ==
    /\ phase = "raised"
    /\ num_images = 2
    /\ Cardinality(DOMAIN output_paths) = 2
    /\ masks_array.ndim = 3
    /\ masks_array.shape[1] = 3

\* C7: every task increments exactly one counter, once: processed (and not
\* errors) when it stored its slot, errors when it did not; nothing is
\* counted before the task reaches its fetch_add.
C7_OneIncrementPerTask ==
    \A i \in Tasks :
        /\ incs[i].p + incs[i].e <= 1
        /\ pc[i] = "done" =>
              IF output_files[i] # ""
              THEN incs[i] = [p |-> 1, e |-> 0] /\ output_files[i] = output_paths[i]
              ELSE incs[i] = [p |-> 0, e |-> 1]
        /\ pc[i] # "done" => incs[i] = [p |-> 0, e |-> 0]

C7_Witness ==
    /\ Returned
    /\ num_images = 3
    /\ incs[0] = [p |-> 0, e |-> 1]
    /\ incs[1] = [p |-> 1, e |-> 0]
    /\ outcome[2] = "write_failure"

(***************************************************************************)
(* The pixel data of one task: the loop body of the batch (lines 143-205)  *)
(* and create_rgba_single (lines 252-308) as functions of the same image,  *)
(* mask and I/O results.  Buffers are functions from 0-based byte offsets. *)
(***************************************************************************)
\* Mask bytes of the inputs.
MaskBytes == {0, 1, 255}

\* (height, width) of the planes of the compared task.
TaskShapes == {<<1, 2>>, <<2, 1>>}

\* What the calls of the body do: imread returns an empty Mat or throws,
\* cvtColor throws, imwrite returns true or false or throws.
IoResults == {"load_empty", "load_throw", "cvt_throw", "write_ok", "write_fail", "write_throw"}

\* A numpy array of shape (n, h, w) in C order as the buffer request()
\* hands out: element [k][r][c] is at offset k*h*w + r*w + c.
Flatten(vol, n, h, w) ==
    [k \in 0 .. (n * h * w - 1) |-> vol[k \div (h * w)][(k % (h * w)) \div w][k % w]]

\* Line 162 and 281: cv::cvtColor(image, image_rgb, COLOR_BGR2RGB) on a
\* continuous 3-channel Mat of the given number of pixels.
CvtColorBGR2RGB(bgr, pixels) ==
    [k \in 0 .. (3 * pixels - 1) |-> bgr[3 * (k \div 3) + (2 - (k % 3))]]

\* The alpha byte stored in place of the thresholded mask byte.
BatchAlphaCopiesMask(m) == m
SingleAlphaCopiesMask(m) == m

\* Line 189: (mask_data[pixel] > 0) ? 255 : 0.
BatchAlpha(m) == IF m > 0 THEN 255 ELSE 0

\* Line 298: (mask_data[pixel] > 0) ? 255 : 0.
SingleAlpha(m) == IF m > 0 THEN 255 ELSE 0

\* The plane offset without the width.
MaskOffsetByRows(i, h, w) == i * h

\* Line 165: masks_data + i * height * width.
MaskOffset(i, h, w) == i * h * w

\* Lines 171-190: the simd loop of the batch over total_pixels pixels;
\* mask_data is masks_data at the offset of the task.
BatchPixelLoop(rgb, masks_data, offset, total_pixels) ==
    [k \in 0 .. (4 * total_pixels - 1) |->
        IF k % 4 < 3 THEN rgb[3 * (k \div 4) + (k % 4)]
        ELSE BatchAlpha(masks_data[offset + (k \div 4)])]

\* Lines 284-299: the simd loop of create_rgba_single.
SinglePixelLoop(rgb, mask_data, total_pixels) ==
    [k \in 0 .. (4 * total_pixels - 1) |->
        IF k % 4 < 3 THEN rgb[3 * (k \div 4) + (k % 4)]
        ELSE SingleAlpha(mask_data[k \div 4])]

\* No pixel buffer, no file.
NoData == <<>>

\* Lines 143-205 for task in.i: how the iteration ends, the RGBA Mat it
\* built and the data it wrote at its output path.
BatchTaskBody(in, simd) ==
    LET masks_data == Flatten(in.vol, in.n, in.h, in.w)
        ends(how) == [outcome |-> how, rgba |-> NoData, file |-> NoData]
        thrown == IF \A t \in ThrownTypes : CaughtAtTaskBoundary(t)
                  THEN ends("exception") ELSE ends("escaped")
    IN  IF in.io = "load_throw" THEN thrown
        ELSE IF in.io = "load_empty" THEN ends("load_failure")
        ELSE IF ~DimensionsMatch(in.image.rows, in.image.cols, in.h, in.w)
             THEN ends("dimension_mismatch")
        ELSE IF in.io = "cvt_throw" THEN thrown
        ELSE IF simd = "trap" THEN ends("trap")
        ELSE LET rgba == BatchPixelLoop(CvtColorBGR2RGB(in.image.data, in.h * in.w),
                                        masks_data, MaskOffset(in.i, in.h, in.w),
                                        in.h * in.w)
             IN  IF in.io = "write_throw" THEN [thrown EXCEPT !.rgba = rgba]
                 ELSE IF in.io = "write_fail"
                      THEN [outcome |-> "write_failure", rgba |-> rgba, file |-> NoData]
                 ELSE [outcome |-> "success", rgba |-> rgba, file |-> rgba]

\* An exception leaves create_rgba_single.
SingleCatchesNothing(type) == FALSE

\* Line 305: catch (const std::exception& e).
SingleCaught(type) == type \in StdExceptionTypes

\* Lines 252-308 for the 2-D (or other) array in.single_mask: the value the
\* call returns ("true", "false"), "raised" when an exception leaves it,
\* "trap" when the process ends in the simd loop.
SingleBody(in, simd) ==
    LET m == in.single_mask
        ends(how) == [ret |-> how, rgba |-> NoData, file |-> NoData]
        thrown(types) == IF \A t \in types : SingleCaught(t)
                         THEN ends("false") ELSE ends("raised")
    IN  IF in.io = "load_throw" THEN thrown(ThrownTypes)
        ELSE IF in.io = "load_empty" THEN ends("false")
        ELSE IF m.ndim # 2 THEN thrown({"std::invalid_argument"})
        ELSE IF ~DimensionsMatch(in.image.rows, in.image.cols, m.shape[1], m.shape[2])
             THEN ends("false")
        ELSE IF in.io = "cvt_throw" THEN thrown(ThrownTypes)
        ELSE IF simd = "trap" THEN ends("trap")
        ELSE LET total == m.shape[1] * m.shape[2]
                 rgba == SinglePixelLoop(CvtColorBGR2RGB(in.image.data, total),
                                         m.data, total)
             IN  IF in.io = "write_throw" THEN [thrown(ThrownTypes) EXCEPT !.rgba = rgba]
                 ELSE IF in.io = "write_fail"
                      THEN [ret |-> "false", rgba |-> rgba, file |-> NoData]
                 ELSE [ret |-> "true", rgba |-> rgba, file |-> rgba]

\* (number of planes, index of the task) of the compared task.
TaskPlanes == {<<1, 0>>, <<2, 1>>, <<3, 1>>}

\* The images cv::imread decodes with the shape (h, w) of the mask planes:
\* two pixels out of BgrPixels, in both orders.
MatchingImages(h, w) ==
    {[rows |-> h, cols |-> w,
      data |-> [k \in 0 .. (3 * h * w - 1) |-> px[((k \div 3) % 2) + 1][(k % 3) + 1]]] :
        px \in {<<<<1, 2, 3>>, <<4, 5, 6>>>>, <<<<4, 5, 6>>, <<1, 2, 3>>>>}}

\* One image of each other shape.
OtherImages(h, w) ==
    {[rows |-> s[1], cols |-> s[2],
      data |-> [k \in 0 .. (3 * s[1] * s[2] - 1) |-> 7]] :
        s \in ImageShapes(h, w) \ {<<h, w>>}}

\* (result of the library calls, image): an unreadable file, an image of
\* another shape, or an image of the shape of the planes with every result
\* of cvtColor and imwrite.
Scenarios(h, w) ==
    {<<io, CHOOSE img \in OtherImages(h, w) : TRUE>> : io \in {"load_empty", "load_throw"}}
    \cup {<<"write_ok", img>> : img \in OtherImages(h, w)}
    \cup {<<io, img>> : io \in IoResults \ {"load_empty", "load_throw"},
                        img \in MatchingImages(h, w)}

\* The mask volumes of n planes: plane i is any plane, the other planes are
\* filled with one byte.
Volumes(n, i, h, w) ==
    {[k \in 0 .. (n - 1) |-> IF k = i THEN plane
                              ELSE [r \in 0 .. (h - 1) |-> [c \in 0 .. (w - 1) |-> fill]]] :
        plane \in [0 .. (h - 1) -> [0 .. (w - 1) -> MaskBytes]], fill \in {0, 255}}

\* The array a caller of create_rgba_single passes for plane i of vol: its
\* own copy of the plane, 2-D, or the plane with a leading axis of 1.
SingleMasks(vol, i, h, w) ==
    LET data == [k \in 0 .. (h * w - 1) |-> vol[i][k \div w][k % w]]
    IN  {[ndim |-> 2, shape |-> <<h, w>>, data |-> data, base |-> b] : b \in MaskBases}
        \cup {[ndim |-> 3, shape |-> <<1, h, w>>, data |-> data, base |-> 0]}

TaskInputs ==
    UNION {UNION {
        {[kind |-> "task", n |-> ni[1], i |-> ni[2], h |-> s[1], w |-> s[2], vol |-> vol,
          base |-> b, io |-> sc[1], image |-> sc[2], single_mask |-> sm] :
            b \in MaskBases, sc \in Scenarios(s[1], s[2]),
            sm \in SingleMasks(vol, ni[2], s[1], s[2])} :
        vol \in Volumes(ni[1], ni[2], s[1], s[2])} :
        ni \in TaskPlanes, s \in TaskShapes}

InitTask ==
    /\ NoFiles
    /\ PageInit
    /\ openmp \in BOOLEAN
    /\ hw = 1
    /\ nthreads_var = DefaultNthreads
    /\ info = <<>>
    /\ NoCall
    /\ batch_data = <<>>
    /\ task_in \in TaskInputs
    /\ batch_task = <<>>
    /\ single_call = <<>>

\* One iteration of the parallel for on the inputs.
RunBatchTask ==
    /\ task_in.kind = "task"
    /\ batch_task = <<>>
    /\ \E simd \in SimdOutcomes(task_in.base, task_in.i, task_in.h, task_in.w) :
          batch_task' = <<BatchTaskBody(task_in, simd)>>
    /\ UNCHANGED <<build, process, others, batch_data, task_in, single_call, phase, inputs, shared, pool,
                   pc, outcome, image, results, ghost>>

\* Line 290: aligned(mask_data: 32) asserted of mask_buf.ptr; as for the
\* batch, a false assertion is undefined behaviour.
SingleSimdOutcomes(base) ==
    IF openmp /\ base % SimdAlign # 0 THEN {"ok", "trap"} ELSE {"ok"}

\* create_rgba_single on the inputs.
RunSingle ==
    /\ task_in.kind = "task"
    /\ single_call = <<>>
    /\ \E simd \in SingleSimdOutcomes(task_in.single_mask.base) :
          single_call' = <<SingleBody(task_in, simd)>>
    /\ UNCHANGED <<build, process, others, batch_data, task_in, batch_task, phase, inputs, shared, pool,
                   pc, outcome, image, results, ghost>>

NextTask == RunBatchTask \/ RunSingle

SpecTask == InitTask /\ [][NextTask]_vars

(***************************************************************************)
(* A batch with its pixel data: the images behind image_paths, the bytes   *)
(* of the mask volume and the results of the library calls are inputs, and *)
(* an iteration of the parallel for (lines 143-205) is one step.           *)
(***************************************************************************)
\* image_paths.size() of the batches.
PlaneBatchSizes == {1, 4}

\* (height, width) of their mask planes.
PlaneShape == <<1, 2>>

\* The mask planes of that shape: all transparent, all opaque, mixed.
Planes ==
    {[r \in 0 .. (PlaneShape[1] - 1) |-> [c \in 0 .. (PlaneShape[2] - 1) |-> b]] : b \in {0, 255}}
    \cup {[r \in 0 .. (PlaneShape[1] - 1) |-> [c \in 0 .. (PlaneShape[2] - 1) |->
                IF c = 0 THEN 0 ELSE 255]]}

\* (result of the library calls, image) of a task: everything succeeds, the
\* write fails, or the image has another shape.
PlaneScenarios ==
    LET h == PlaneShape[1]
        w == PlaneShape[2]
        fits == CHOOSE img \in MatchingImages(h, w) : TRUE
        other == CHOOSE img \in OtherImages(h, w) : TRUE
    IN  {<<"write_ok", fits>>, <<"write_fail", fits>>, <<"write_ok", other>>}

\* The data of a batch of n tasks.
PlaneBatches(n) ==
    {[vol |-> vol, io |-> [i \in 0 .. (n - 1) |-> sc[i][1]],
      image |-> [i \in 0 .. (n - 1) |-> sc[i][2]]] :
        vol \in [0 .. (n - 1) -> Planes], sc \in [0 .. (n - 1) -> PlaneScenarios]}

\* The state batch_create_rgba_optimized is in at line 141, after the
\* pre-flight checks and the set-up of lines 122-138, on an 8-thread
\* machine.
InitPlanes ==
    /\ NoFiles
    /\ PageInit
    /\ openmp \in BOOLEAN
    /\ hw = 8
    /\ nthreads_var = (IF openmp THEN TeamSize(Min(ThreadCap, hw)) ELSE DefaultNthreads)
    /\ info = <<>>
    /\ phase = "running"
    /\ num_images \in PlaneBatchSizes
    /\ batch_data \in {<<d>> : d \in PlaneBatches(num_images)}
    /\ output_paths = [i \in 0 .. (num_images - 1) |-> OutName(i)]
    /\ masks_array = [ndim |-> 3, shape |-> <<num_images, PlaneShape[1], PlaneShape[2]>>,
                      base |-> 0]
    /\ height = PlaneShape[1]
    /\ width = PlaneShape[2]
    /\ processed = 0
    /\ errors = 0
    /\ output_files = [i \in 0 .. (num_images - 1) |-> ""]
    /\ max_threads = Min(ThreadCap, hw)
    /\ team = TeamSize(Min(ThreadCap, hw))
    /\ next_i = 0
    /\ pc = [i \in 0 .. (num_images - 1) |-> "unclaimed"]
    /\ outcome = [i \in 0 .. (num_images - 1) |-> "none"]
    /\ image = [i \in 0 .. (num_images - 1) |-> NoImage]
    /\ results = <<>>
    /\ reads = [i \in 0 .. (num_images - 1) |-> 0]
    /\ writes = [i \in 0 .. (num_images - 1) |-> 0]
    /\ files = {}
    /\ incs = [i \in 0 .. (num_images - 1) |-> [p |-> 0, e |-> 0]]
    /\ claims = [i \in 0 .. (num_images - 1) |-> 0]
    /\ out_of_order = FALSE
    /\ workers_used = 0
    /\ task_in = NoTask
    /\ batch_task = <<>>
    /\ single_call = <<>>

\* What iteration i works on.
IterationInput(i) ==
    [kind |-> "task", n |-> num_images, i |-> i, h |-> height, w |-> width,
     vol |-> batch_data[1].vol, base |-> masks_array.base,
     io |-> batch_data[1].io[i], image |-> batch_data[1].image[i]]

\* A task counts as processed only when its alpha channel has a visible
\* pixel.
CountsOnlyVisible(res) ==
    /\ res.outcome = "success"
    /\ \E k \in DOMAIN res.rgba : k % 4 = 3 /\ res.rgba[k] # 0

\* Line 194: if (success), the value cv::imwrite returned.
IterationCounts(res) == res.outcome = "success"

\* Lines 143-205 for iteration i, the iterations in any order: the body,
\* then the slot and processed.fetch_add (lines 195-196) or one of the
\* errors.fetch_add; a trap ends the process.
RunIteration(i) ==
    /\ phase = "running"
    /\ pc[i] = "unclaimed"
    /\ \E simd \in SimdOutcomes(masks_array.base, i, height, width) :
          LET res == BatchTaskBody(IterationInput(i), simd)
          IN  /\ outcome' = [outcome EXCEPT ![i] = res.outcome]
              /\ reads' = [reads EXCEPT ![i] = 1]
              /\ writes' = [writes EXCEPT ![i] = IF res.rgba # NoData THEN 1 ELSE 0]
              /\ IF res.outcome \in {"trap", "escaped"}
                 THEN /\ phase' = "aborted"
                      /\ UNCHANGED <<pc, shared, files, incs>>
                 ELSE /\ phase' = phase
                      /\ pc' = [pc EXCEPT ![i] = "done"]
                      /\ IF IterationCounts(res)
                         THEN /\ output_files' = [output_files EXCEPT ![i] = SlotValue(i)]
                              /\ processed' = FetchAdd(processed)
                              /\ errors' = errors
                              /\ incs' = [incs EXCEPT ![i].p = @ + 1]
                         ELSE /\ errors' = FetchAdd(errors)
                              /\ incs' = [incs EXCEPT ![i].e = @ + 1]
                              /\ UNCHANGED <<output_files, processed>>
                      /\ files' = IF res.file # NoData THEN files \cup {output_paths[i]}
                                                       ELSE files
    /\ claims' = [claims EXCEPT ![i] = 1]
    /\ out_of_order' = (out_of_order \/ Overtakes(i))
    /\ UNCHANGED <<rest, inputs, pool, image, results, workers_used>>

NextPlanes ==
    \/ \E i \in Tasks : RunIteration(i)
    \/ Aggregate

SpecPlanes == InitPlanes /\ [][NextPlanes]_vars

(***************************************************************************)
(* A batch with its files: cv::imread (line 145) reads what the disk holds *)
(* at image_paths[i] when the iteration gets there, cv::imwrite (line 194)  *)
(* replaces what it holds at output_paths[i].  A file is its decoded shape  *)
(* and bytes; a PNG written from the RGBA Mat holds the bytes of the Mat.   *)
(***************************************************************************)
\* The tasks of the batch: image_paths.size() is 2.
FileTasks == {0, 1}

\* A photograph of the shape of the planes, its BGR bytes counted from b.
Photo(b) ==
    [rows |-> PlaneShape[1], cols |-> PlaneShape[2], channels |-> 3,
     data |-> [k \in 0 .. (3 * PlaneShape[1] * PlaneShape[2] - 1) |-> b + k]]

\* A four-channel PNG left by an earlier call.
OldOutput ==
    [rows |-> PlaneShape[1], cols |-> PlaneShape[2], channels |-> 4,
     data |-> [k \in 0 .. (4 * PlaneShape[1] * PlaneShape[2] - 1) |-> 30 + k]]

\* The PNG cv::imwrite makes of a four-channel Mat.
EncodedPng(rgba) ==
    [rows |-> height, cols |-> width, channels |-> 4, data |-> rgba]

\* cv::imread(path, IMREAD_COLOR): three channels, the alpha of a
\* four-channel file dropped.
Decode(file) ==
    [kind |-> "image", rows |-> file.rows, cols |-> file.cols,
     data |-> [k \in 0 .. (3 * file.rows * file.cols - 1) |->
                 file.data[file.channels * (k \div 3) + (k % 3)]]]

\* The disk with two photographs, and with the output of an earlier call.
TwoPhotos == [p \in {"img0.jpg", "img1.jpg"} |->
                 IF p = "img0.jpg" THEN Photo(10) ELSE Photo(20)]
WithOldOutput == [p \in {"img0.jpg", "img1.jpg", OutName(0)} |->
                     IF p = OutName(0) THEN OldOutput ELSE TwoPhotos[p]]

\* The paths a caller passes: all distinct; one image for both tasks; one
\* output path for both tasks; the output of task 0 the image of task 1;
\* task 0 writing over its own image; an image that does not exist.
FileLayouts ==
    {[image_paths |-> <<"img0.jpg", "img1.jpg">>, output_paths |-> <<OutName(0), OutName(1)>>,
      disk |-> TwoPhotos],
     [image_paths |-> <<"img0.jpg", "img0.jpg">>, output_paths |-> <<OutName(0), OutName(1)>>,
      disk |-> TwoPhotos],
     [image_paths |-> <<"img0.jpg", "img1.jpg">>, output_paths |-> <<OutName(0), OutName(0)>>,
      disk |-> TwoPhotos],
     [image_paths |-> <<"img0.jpg", OutName(0)>>, output_paths |-> <<OutName(0), OutName(1)>>,
      disk |-> WithOldOutput],
     [image_paths |-> <<"img0.jpg", "img1.jpg">>, output_paths |-> <<"img0.jpg", OutName(1)>>,
      disk |-> TwoPhotos],
     [image_paths |-> <<"img0.jpg", "img2.jpg">>, output_paths |-> <<OutName(0), OutName(1)>>,
      disk |-> TwoPhotos]}

\* The state batch_create_rgba_optimized is in at line 141 on an 8-thread
\* machine.
InitFiles ==
    /\ PageInit
    /\ runs = <<>>
    /\ out_file = <<>>
    /\ file_ops = {}
    /\ openmp \in BOOLEAN
    /\ hw = 8
    /\ nthreads_var = (IF openmp THEN TeamSize(Min(ThreadCap, hw)) ELSE DefaultNthreads)
    /\ info = <<>>
    /\ phase = "running"
    /\ num_images = Cardinality(FileTasks)
    /\ \E lay \in FileLayouts, vol \in [FileTasks -> Planes] :
          /\ batch_data = <<[image_paths |-> [i \in FileTasks |->
                                                 lay.image_paths[i + 1]],
                              vol |-> vol]>>
          /\ output_paths = [i \in FileTasks |-> lay.output_paths[i + 1]]
          /\ disk = lay.disk
    /\ masks_array = [ndim |-> 3, shape |-> <<num_images, PlaneShape[1], PlaneShape[2]>>,
                      base |-> 0]
    /\ height = PlaneShape[1]
    /\ width = PlaneShape[2]
    /\ processed = 0
    /\ errors = 0
    /\ output_files = [i \in 0 .. (num_images - 1) |-> ""]
    /\ max_threads = Min(ThreadCap, hw)
    /\ team = TeamSize(Min(ThreadCap, hw))
    /\ next_i = 0
    /\ pc = [i \in 0 .. (num_images - 1) |-> "unclaimed"]
    /\ outcome = [i \in 0 .. (num_images - 1) |-> "none"]
    /\ image = [i \in 0 .. (num_images - 1) |-> NoImage]
    /\ results = <<>>
    /\ reads = [i \in 0 .. (num_images - 1) |-> 0]
    /\ writes = [i \in 0 .. (num_images - 1) |-> 0]
    /\ files = {}
    /\ incs = [i \in 0 .. (num_images - 1) |-> [p |-> 0, e |-> 0]]
    /\ claims = [i \in 0 .. (num_images - 1) |-> 0]
    /\ out_of_order = FALSE
    /\ workers_used = 0
    /\ task_in = NoTask
    /\ batch_task = <<>>
    /\ single_call = <<>>

\* image_paths[i].
ImagePath(i) == batch_data[1].image_paths[i]

\* Lines 145-158 on the disk: the file at image_paths[i] as it is now.
ReadFile(i) ==
    /\ phase = "running"
    /\ pc[i] = "imread"
    /\ reads' = [reads EXCEPT ![i] = @ + 1]
    /\ file_ops' = file_ops \cup {<<i, "read", ImagePath(i)>>}
    /\ IF ImagePath(i) \notin DOMAIN disk
       THEN TaskFails(i, "load_failure")
       ELSE LET img == Decode(disk[ImagePath(i)])
            IN  IF ~DimensionsMatch(img.rows, img.cols, height, width)
                THEN TaskFails(i, "dimension_mismatch")
                ELSE /\ pc' = [pc EXCEPT ![i] = "composite"]
                     /\ image' = [image EXCEPT ![i] = img]
                     /\ UNCHANGED <<outcome, phase>>
    /\ UNCHANGED <<build, one_task, process, twice, page, timers, disk, inputs, shared,
                   pool, results, writes, files, incs, claims, out_of_order, workers_used>>

\* What iteration i works on once its image is decoded.
FileTaskInput(i, io) ==
    [kind |-> "task", n |-> num_images, i |-> i, h |-> height, w |-> width,
     vol |-> batch_data[1].vol, base |-> masks_array.base, io |-> io, image |-> image[i]]

\* Lines 160-199 on the disk: the composite of the decoded image and the
\* plane of the task, and cv::imwrite, which replaces the file at
\* output_paths[i] when it succeeds.
WriteFile(i) ==
    /\ phase = "running"
    /\ pc[i] = "composite"
    /\ \E simd \in SimdOutcomes(masks_array.base, i, height, width),
          io \in {"write_ok", "write_fail"} :
          LET res == BatchTaskBody(FileTaskInput(i, io), simd)
          IN  IF res.outcome = "trap"
              THEN /\ TaskAborts(i, "trap")
                   /\ UNCHANGED <<disk, file_ops, writes, files>>
              ELSE /\ writes' = [writes EXCEPT ![i] = @ + 1]
                   /\ file_ops' = file_ops \cup {<<i, "write", output_paths[i]>>}
                   /\ IF res.file # NoData
                      THEN /\ disk' = [p \in DOMAIN disk \cup {output_paths[i]} |->
                                          IF p = output_paths[i] THEN EncodedPng(res.file)
                                                                 ELSE disk[p]]
                           /\ files' = files \cup {output_paths[i]}
                           /\ pc' = [pc EXCEPT ![i] = "store_slot"]
                           /\ UNCHANGED <<outcome, phase, image>>
                      ELSE /\ TaskFails(i, "write_failure")
                           /\ UNCHANGED <<disk, files>>
    /\ UNCHANGED <<build, one_task, process, twice, page, timers, inputs, shared, pool,
                   results, reads, incs, claims, out_of_order, workers_used>>

NextFiles ==
    \/ Claim
    \/ \E i \in Tasks : ReadFile(i)
    \/ \E i \in Tasks : WriteFile(i)
    \/ \E i \in Tasks : StoreSlot(i)
    \/ \E i \in Tasks : CountProcessed(i)
    \/ \E i \in Tasks : CountError(i)
    \/ Aggregate

SpecFiles == InitFiles /\ [][NextFiles]_vars

(***************************************************************************)
(* Batches of the sizes of a scan: photographs by the dozen.  The state at  *)
(* the barrier of line 206 is taken as the start, the first tasks of the   *)
(* batch having succeeded and the others having failed to load.            *)
(***************************************************************************)
ScanBatchSizes == {1, 20, 44, 45, 50}

\* Shapes of the mask planes: VGA, 12 megapixel and 48 megapixel frames.
ScanShapes == {<<480, 640>>, <<3000, 4000>>, <<6000, 8000>>}

\* The batch of n images of shape s at the barrier, p of them written.
AtBarrier(n, s, p) ==
    /\ phase = "running"
    /\ num_images = n
    /\ output_paths = [i \in 0 .. (n - 1) |-> OutName(i)]
    /\ masks_array = [ndim |-> 3, shape |-> <<n, s[1], s[2]>>, base |-> 0]
    /\ height = s[1]
    /\ width = s[2]
    /\ processed = p
    /\ errors = n - p
    /\ output_files = [i \in 0 .. (n - 1) |-> IF i < p THEN OutName(i) ELSE ""]
    /\ max_threads = Min(ThreadCap, hw)
    /\ team = TeamSize(Min(ThreadCap, hw))
    /\ next_i = n
    /\ pc = [i \in 0 .. (n - 1) |-> "done"]
    /\ outcome = [i \in 0 .. (n - 1) |-> IF i < p THEN "success" ELSE "load_failure"]
    /\ results = <<>>
    /\ reads = [i \in 0 .. (n - 1) |-> 1]
    /\ writes = [i \in 0 .. (n - 1) |-> IF i < p THEN 1 ELSE 0]
    /\ files = {OutName(i) : i \in 0 .. (p - 1)}
    /\ incs = [i \in 0 .. (n - 1) |-> IF i < p THEN [p |-> 1, e |-> 0]
                                                 ELSE [p |-> 0, e |-> 1]]
    /\ claims = [i \in 0 .. (n - 1) |-> 1]
    /\ out_of_order = FALSE
    /\ workers_used = Min(TeamSize(Min(ThreadCap, hw)), n)
    /\ image = [i \in 0 .. (n - 1) |-> NoImage]

InitScan ==
    /\ NoFiles
    /\ PageInit
    /\ openmp \in BOOLEAN
    /\ hw \in HwValues
    /\ nthreads_var = (IF openmp THEN TeamSize(Min(ThreadCap, hw)) ELSE DefaultNthreads)
    /\ info = <<>>
    /\ batch_data = <<>>
    /\ task_in = NoTask
    /\ batch_task = <<>>
    /\ single_call = <<>>
    /\ \E n \in ScanBatchSizes, s \in ScanShapes :
       \E p \in {0, n \div 2, n} : AtBarrier(n, s, p)

NextScan == Aggregate \/ CallEnds

SpecScan == InitScan /\ [][NextScan]_vars

(***************************************************************************)
(* The compositor run more than once on the same image, mask and output    *)
(* path.  Each run allocates its RGBA Mat (lines 168 and 282), whose bytes *)
(* are not initialised, and the loop stores into it.                       *)
(***************************************************************************)
\* The runs that are followed: a first and a second.
RunNumbers == {1, 2}

\* What a byte of freshly allocated memory holds.
GarbageBytes == {0, 170}

\* cv::Mat rgba_image(height, width, CV_8UC4): len bytes left as the
\* allocator hands them out.
Uninitialized(len) == {[k \in 0 .. (len - 1) |-> g] : g \in GarbageBytes}

\* The loop stores the three colour bytes of a pixel and not its alpha.
BatchStoresColourOnly(total_pixels) ==
    {4 * p + c : p \in 0 .. (total_pixels - 1), c \in 0 .. 2}

\* Lines 186-189: the byte offsets of rgba_ptr the loop of the batch stores
\* to, rgba_offset + 0 .. rgba_offset + 3 for every pixel.
BatchStores(total_pixels) ==
    {4 * p + c : p \in 0 .. (total_pixels - 1), c \in 0 .. 3}

\* Lines 295-298: the same for create_rgba_single.
SingleStores(total_pixels) ==
    {4 * p + c : p \in 0 .. (total_pixels - 1), c \in 0 .. 3}

\* The Mat after the loop: the stored bytes where the loop stored, what the
\* allocation held elsewhere.
AfterLoop(alloc, stores, stored) ==
    [k \in DOMAIN alloc |-> IF k \in stores THEN stored[k] ELSE alloc[k]]

\* The inputs of the repeated runs: the image is readable.
TwiceInputs == {in \in TaskInputs : in.io \in {"write_ok", "write_fail", "cvt_throw"}}

InitTwice ==
    /\ PageInit
    /\ openmp \in BOOLEAN
    /\ hw = 1
    /\ nthreads_var = DefaultNthreads
    /\ info = <<>>
    /\ NoCall
    /\ batch_data = <<>>
    /\ task_in \in TwiceInputs
    /\ batch_task = <<>>
    /\ single_call = <<>>
    /\ runs = <<>>
    /\ out_file = NoData
    /\ disk = <<>>
    /\ file_ops = {}

\* Another run can be made: the process has not been ended by a trap.
CanRunAgain ==
    /\ task_in.kind = "task"
    /\ Len(runs) + 1 \in RunNumbers
    /\ \A k \in DOMAIN runs : runs[k].ended # "trap"

\* One more iteration of the batch loop (lines 143-205) on task_in.
ComposeBatch ==
    /\ CanRunAgain
    /\ \E alloc \in Uninitialized(4 * task_in.h * task_in.w),
          simd \in SimdOutcomes(task_in.base, task_in.i, task_in.h, task_in.w) :
          LET res == BatchTaskBody(task_in, simd)
              rgba == IF res.rgba = NoData THEN NoData
                      ELSE AfterLoop(alloc, BatchStores(task_in.h * task_in.w), res.rgba)
              file == IF res.file = NoData THEN NoData ELSE rgba
          IN  /\ runs' = Append(runs, [entry |-> "batch", alloc |-> alloc,
                                       ended |-> res.outcome, rgba |-> rgba, file |-> file])
              /\ out_file' = IF file # NoData THEN file ELSE out_file
    /\ UNCHANGED <<build, process, one_task, storage, page, timers, phase, inputs, shared,
                   pool, pc, outcome, image, results, ghost>>

\* One more call of create_rgba_single (lines 252-308) on task_in.
ComposeSingle ==
    /\ CanRunAgain
    /\ \E alloc \in Uninitialized(4 * task_in.h * task_in.w),
          simd \in SingleSimdOutcomes(task_in.single_mask.base) :
          LET res == SingleBody(task_in, simd)
              rgba == IF res.rgba = NoData THEN NoData
                      ELSE AfterLoop(alloc, SingleStores(task_in.h * task_in.w), res.rgba)
              file == IF res.file = NoData THEN NoData ELSE rgba
          IN  /\ runs' = Append(runs, [entry |-> "single", alloc |-> alloc,
                                       ended |-> res.ret, rgba |-> rgba, file |-> file])
              /\ out_file' = IF file # NoData THEN file ELSE out_file
    /\ UNCHANGED <<build, process, one_task, storage, page, timers, phase, inputs, shared,
                   pool, pc, outcome, image, results, ghost>>

NextTwice == ComposeBatch \/ ComposeSingle

SpecTwice == InitTwice /\ [][NextTwice]_vars

(***************************************************************************)
(* The upload page (src/unnamed/part_001) with its dropzone (part_005) and *)
(* its form (UploadForm.tsx).  A step is one event handler or one timer    *)
(* callback with the state updates it makes; a string is the sequence of   *)
(* its characters.                                                         *)
(***************************************************************************)
\* Line 41: the period of the progress interval, in milliseconds.
IntervalMs == 150

\* Line 52: the delay of the completion timeout, in milliseconds.
CompletionMs == 2000

\* Line 39: Math.random() * 15 is below 15.
RandomScale == 15

\* The values of Math.random() * 15 that are followed.
ProgressSteps == {0, 7, 14}

\* The video files the dropzone accepts (part_005, validateFile).
VideoFiles == {"a.mp4", "b.mov"}

\* What the user can leave in the title input.
Titles == {<<>>, <<" ">>, <<"s">>, <<" ", "s">>}

\* String.prototype.trim: the white space at both ends removed.
RECURSIVE TrimStart(_)
TrimStart(str) ==
    IF str # <<>> /\ Head(str) = " " THEN TrimStart(Tail(str)) ELSE str

RECURSIVE TrimEnd(_)
TrimEnd(str) ==
    IF str # <<>> /\ str[Len(str)] = " " THEN TrimEnd(SubSeq(str, 1, Len(str) - 1)) ELSE str

Trim(str) == TrimEnd(TrimStart(str))

\* Line 19: selectedFile && scanTitle.trim().length > 0.
IsFormValid == selectedFile # "null" /\ Len(Trim(scanTitle)) > 0

\* Lines 89-101: the dropzone, the form and the button are rendered while
\* uploadSuccess is false, the success view otherwise.
ShowsForm == ~uploadSuccess

\* The state of the compositor, which the page does not touch.
engine == <<build, one_task, process, twice, storage, phase, inputs, shared, pool, pc,
            outcome, image, results, ghost>>

InitUpload ==
    /\ NoFiles
    /\ PageInit
    /\ openmp = TRUE
    /\ hw = 1
    /\ nthreads_var = DefaultNthreads
    /\ info = <<>>
    /\ NoCall
    /\ batch_data = <<>>
    /\ task_in = NoTask
    /\ batch_task = <<>>
    /\ single_call = <<>>

\* Lines 21-24, called by the dropzone with a valid file (part_005, lines
\* 33-55).
HandleFileSelect(file) ==
    /\ ShowsForm
    /\ selectedFile' = file
    /\ uploadSuccess' = FALSE
    /\ UNCHANGED <<engine, timers, scanTitle, isUploading, uploadProgress>>

\* part_005, lines 57-59: the remove button, shown while a file is
\* selected, calls onFileSelect(null).
RemoveFile ==
    /\ ShowsForm
    /\ selectedFile # "null"
    /\ selectedFile' = "null"
    /\ uploadSuccess' = FALSE
    /\ UNCHANGED <<engine, timers, scanTitle, isUploading, uploadProgress>>

\* UploadForm.tsx, line 38: onTitleChange(e.target.value), setScanTitle.
EditTitle(title) ==
    /\ ShowsForm
    /\ scanTitle' = title
    /\ UNCHANGED <<engine, timers, selectedFile, isUploading, uploadProgress, uploadSuccess>>

\* Lines 26-53 up to the two timer registrations; the button is disabled
\* while the form is not valid or an upload is in progress (line 126).
HandleUpload ==
    /\ ShowsForm
    /\ ~isUploading
    /\ IsFormValid
    /\ isUploading' = TRUE
    /\ uploadProgress' = 0
    /\ progressInterval' = TRUE
    /\ completion' = TRUE
    /\ ticks' = 0
    /\ UNCHANGED <<engine, selectedFile, scanTitle, uploadSuccess>>

\* Lines 35-39: the update function of a tick, for a value below 100.
TickUpdate(prev, step) == prev + step

\* Lines 33-41: a callback of the interval; the interval set at time 0 has
\* called back ticks times, and calls back again before the timeout is due.
IntervalTick ==
    /\ progressInterval
    /\ (ticks + 1) * IntervalMs < CompletionMs
    /\ ticks' = ticks + 1
    /\ IF uploadProgress >= 100
       THEN /\ progressInterval' = FALSE
            /\ uploadProgress' = 100
       ELSE /\ progressInterval' = progressInterval
            /\ \E step \in ProgressSteps : uploadProgress' = TickUpdate(uploadProgress, step)
    /\ UNCHANGED <<engine, completion, selectedFile, scanTitle, isUploading, uploadSuccess>>

\* Lines 44-52: the callback of the timeout.
CompletionTimeout ==
    /\ completion
    /\ completion' = FALSE
    /\ progressInterval' = FALSE
    /\ uploadProgress' = 100
    /\ isUploading' = FALSE
    /\ uploadSuccess' = TRUE
    /\ UNCHANGED <<engine, ticks, selectedFile, scanTitle>>

\* Lines 55-61: "Upload Another Scan" in the success view.
ResetForm ==
    /\ ~ShowsForm
    /\ selectedFile' = "null"
    /\ scanTitle' = <<>>
    /\ uploadProgress' = 0
    /\ uploadSuccess' = FALSE
    /\ UNCHANGED <<engine, timers, isUploading>>

NextUpload ==
    \/ \E file \in VideoFiles : HandleFileSelect(file)
    \/ RemoveFile
    \/ \E title \in Titles : EditTitle(title)
    \/ HandleUpload
    \/ IntervalTick
    \/ CompletionTimeout
    \/ ResetForm

SpecUpload == InitUpload /\ [][NextUpload]_vars

(***************************************************************************)
(* Properties of the pixel data and of create_rgba_single.                 *)
(***************************************************************************)
BatchDone == task_in.kind = "task" /\ batch_task # <<>>
SingleDone == task_in.kind = "task" /\ single_call # <<>>
BatchRes == batch_task[1]
SingleRes == single_call[1]
PixelsOf(in) == {<<r, c>> : r \in 0 .. (in.h - 1), c \in 0 .. (in.w - 1)}

\* C8: the file a successful task writes has, at every pixel (r, c), alpha
\* 255 where byte [i][r][c] of the mask volume is above 0 and alpha 0 where
\* it is 0, and the R, G, B bytes of the pixel (r, c) that imread decoded
\* as B, G, R.
C8_CompositeRule ==
    (BatchDone /\ BatchRes.outcome = "success") =>
        /\ BatchRes.file = BatchRes.rgba
        /\ DOMAIN BatchRes.file = 0 .. (4 * task_in.h * task_in.w - 1)
        /\ \A rc \in PixelsOf(task_in) :
              LET p == rc[1] * task_in.w + rc[2]
                  src == task_in.image.data
                  m == task_in.vol[task_in.i][rc[1]][rc[2]]
              IN  /\ BatchRes.file[4 * p + 3] = (IF m > 0 THEN 255 ELSE 0)
                  /\ BatchRes.file[4 * p + 0] = src[3 * p + 2]
                  /\ BatchRes.file[4 * p + 1] = src[3 * p + 1]
                  /\ BatchRes.file[4 * p + 2] = src[3 * p + 0]

C8_Witness ==
    /\ BatchDone
    /\ BatchRes.outcome = "success"
    /\ task_in.n = 3
    /\ task_in.i = 1
    /\ task_in.h = 1
    /\ task_in.vol[1][0] = [c \in 0 .. 1 |-> IF c = 0 THEN 1 ELSE 0]
    /\ task_in.vol[0][0][0] = 255
    /\ BatchRes.file = [k \in 0 .. 7 |-> <<3, 2, 1, 255, 6, 5, 4, 0>>[k + 1]]

\* C9: given the same image, the same mask plane as a 2-D array and the
\* same results of the library calls, create_rgba_single and one iteration
\* of the batch build the same RGBA data and write the same file, and the
\* single call returns true exactly when the task is one that is counted as
\* processed.
C9_SingleMatchesBatchTask ==
    (/\ BatchDone
     /\ SingleDone
     /\ task_in.single_mask.ndim = 2
     /\ BatchRes.outcome # "trap"
     /\ SingleRes.ret # "trap") =>
        /\ SingleRes.ret \in {"true", "false"}
        /\ SingleRes.ret = "true" <=> BatchRes.outcome = "success"
        /\ SingleRes.rgba = BatchRes.rgba
        /\ SingleRes.file = BatchRes.file

C9_Witness ==
    /\ BatchDone
    /\ SingleDone
    /\ task_in.single_mask.ndim = 2
    /\ task_in.i = 1
    /\ SingleRes.ret = "true"
    /\ BatchRes.outcome = "success"
    /\ SingleRes.file = BatchRes.file
    /\ \E k \in DOMAIN SingleRes.file : SingleRes.file[k] = 255
    /\ \E k \in DOMAIN SingleRes.file : k % 4 = 3 /\ SingleRes.file[k] = 0

\* C10: create_rgba_single never raises: an unreadable image, a mask that
\* is not 2-D, a shape that differs from the mask's, a write that fails and
\* an exception in the library calls each make it return false, and it
\* returns true only after imwrite returned true.
C10_SingleNeverRaises ==
    SingleDone =>
        LET in == task_in
            m == in.single_mask
            loaded == in.io \notin {"load_empty", "load_throw"}
            fits == m.ndim = 2 /\ in.image.rows = m.shape[1] /\ in.image.cols = m.shape[2]
        IN  /\ SingleRes.ret # "raised"
            /\ ~loaded => SingleRes.ret = "false"
            /\ (loaded /\ m.ndim # 2) => SingleRes.ret = "false"
            /\ (loaded /\ ~fits) => SingleRes.ret = "false"
            /\ (in.io \in {"cvt_throw", "write_throw", "write_fail"} /\ SingleRes.ret # "trap") =>
                  SingleRes.ret = "false"
            /\ SingleRes.ret = "true" =>
                  (in.io = "write_ok" /\ loaded /\ fits /\ SingleRes.file = SingleRes.rgba
                   /\ SingleRes.file # NoData)
            /\ SingleRes.ret # "true" => SingleRes.file = NoData

C10_Witness ==
    /\ SingleDone
    /\ task_in.io = "write_ok"
    /\ task_in.single_mask.ndim = 3
    /\ task_in.image.rows = task_in.h
    /\ task_in.image.cols = task_in.w
    /\ SingleRes.ret = "false"

(***************************************************************************)
(* Properties of the write step, the report and the thread team.           *)
(***************************************************************************)
\* C11: cv::imwrite is called for a task only after the task has read its
\* image and found it of the shape of the mask planes; a task that ends at
\* the load or at the dimension check has called it zero times and has no
\* file at its output path; a task that reaches the write step calls it
\* exactly once.
C11_WriteOnlyAfterChecks ==
    \A i \in Tasks :
        /\ writes[i] <= 1
        /\ writes[i] = 1 => reads[i] = 1
        /\ pc[i] \in {"unclaimed", "imread", "composite", "imwrite"} => writes[i] = 0
        /\ pc[i] \in {"imwrite", "store_slot"} =>
              /\ reads[i] = 1
              /\ image[i].kind = "image"
              /\ image[i].rows = height
              /\ image[i].cols = width
        /\ pc[i] \in {"store_slot", "count_processed"} => writes[i] = 1
        /\ outcome[i] \in {"load_failure", "dimension_mismatch"} =>
              /\ writes[i] = 0
              /\ output_paths[i] \notin files
        /\ outcome[i] \in {"write_failure", "success"} => writes[i] = 1

C11_Witness ==
    /\ Returned
    /\ num_images = 3
    /\ outcome[0] = "load_failure"
    /\ outcome[1] = "dimension_mismatch"
    /\ outcome[2] = "write_failure"
    /\ writes = [i \in 0 .. 2 |-> IF i = 2 THEN 1 ELSE 0]
    /\ files = {}

\* The keys of the returned dict.
ReportFields == DOMAIN Rep

\* C12 as stated: the returned dict has exactly the keys processed, errors,
\* output_files, processing_time_ms, avg_time_per_image_ms,
\* throughput_mpix_per_sec and threads_used.
C12_SevenFields ==
    Returned =>
        ReportFields = {"processed", "errors", "output_files", "processing_time_ms",
                        "avg_time_per_image_ms", "throughput_mpix_per_sec", "threads_used"}

\* C12 as amended: the returned dict has exactly those seven keys and the
\* key uploaded, whose value is 0 in every report.
C12_FieldsWithUploaded ==
    Returned =>
        /\ ReportFields = {"processed", "errors", "output_files", "uploaded",
                           "processing_time_ms", "avg_time_per_image_ms",
                           "throughput_mpix_per_sec", "threads_used"}
        /\ Rep.uploaded = 0

C12_Witness ==
    /\ Returned
    /\ "uploaded" \in ReportFields
    /\ Rep.processed = 2
    /\ Rep.errors = 0

\* A call that passed the pre-flight checks.
Started == phase \in {"running", "returned", "aborted"}

\* The tasks whose image has been read and that have not ended.
Concurrent == {i \in Tasks : reads[i] = 1 /\ pc[i] # "done"}

\* C13: the worker count of a batch is min(4, hardware parallelism), and at
\* no moment of the batch are more tasks between the read of their image
\* and their end than that worker count.
C13_ConcurrencyWithinWorkerCount ==
    Started =>
        /\ max_threads = Min(ThreadCap, hw)
        /\ Cardinality(Concurrent) <= max_threads

\* The same where the hardware parallelism is known.
C13_HoldsWhereParallelismKnown ==
    (Started /\ hw >= 1) =>
        /\ max_threads = Min(ThreadCap, hw)
        /\ Cardinality(Concurrent) <= max_threads

\* C14: threads_used of the report is the number of threads that executed
\* an iteration of the batch, also when the batch has fewer tasks than
\* threads and when the loop runs without OpenMP.
C14_ThreadsUsedIsWorkersUsed ==
    Returned => Rep.threads_used = workers_used

\* No report understates the threads that executed an iteration, except
\* where the hardware parallelism is unknown.
C14_ThreadsUsedIsUpperBound ==
    (Returned /\ hw >= 1) =>
        /\ workers_used <= Rep.threads_used
        /\ workers_used <= num_images
        /\ workers_used <= team

\* C15: throughput_mpix_per_sec is the pixels of the successful tasks
\* (their number times height times width, nothing for a failed task) over
\* the elapsed time of the parallel for, the time that processing_time_ms
\* reports; with no successful task both throughput_mpix_per_sec and
\* avg_time_per_image_ms are 0.
C15_ThroughputFromSuccessfulPixels ==
    Returned =>
        /\ Rep.throughput_mpix_per_sec.num = Cardinality(Succeeded) * height * width
        /\ Rep.throughput_mpix_per_sec.den * Rep.processing_time_ms.den
              = 1000 * Rep.processing_time_ms.num
        /\ Rep.throughput_mpix_per_sec.den > 0
        /\ Rep.avg_time_per_image_ms.den > 0
        /\ Rep.processed > 0 =>
              Rep.avg_time_per_image_ms.num * Rep.processing_time_ms.den * Rep.processed
                  = Rep.processing_time_ms.num * Rep.avg_time_per_image_ms.den
        /\ Rep.processed = 0 =>
              /\ Rep.throughput_mpix_per_sec.num = 0
              /\ Rep.avg_time_per_image_ms.num = 0

C15_Witness ==
    /\ Returned
    /\ num_images = 3
    /\ Rep.processed = 1
    /\ Rep.errors = 2
    /\ Rep.throughput_mpix_per_sec = [num |-> 16, den |-> 4000]
    /\ Rep.avg_time_per_image_ms = [num |-> 4000, den |-> 1000]

\* A report of a batch in which no task succeeded.
C15_NothingProcessed ==
    /\ Returned
    /\ Rep.processed = 0
    /\ Rep.errors = 2
    /\ Rep.throughput_mpix_per_sec.num = 0
    /\ Rep.avg_time_per_image_ms.num = 0

\* The load, the dimension check and the write of task i succeed.
IoSucceeds(i) ==
    /\ batch_data[1].io[i] = "write_ok"
    /\ batch_data[1].image[i].rows = height
    /\ batch_data[1].image[i].cols = width

\* Plane i of the mask volume is 0 everywhere, or 255 everywhere.
UniformPlane(i) ==
    \E b \in {0, 255} :
        \A r \in 0 .. (height - 1), c \in 0 .. (width - 1) : batch_data[1].vol[i][r][c] = b

\* C16: whether a task is counted as processed or as an error is decided by
\* its load, its dimension check and its write alone, whatever the bytes of
\* its mask plane: a task whose plane is all 0 or all 255 and whose load,
\* check and write succeed is counted as processed, its file is written
\* and its path is in its slot and in output_files, and a batch of 4 such
\* tasks reports processed 4 and errors 0.
C16_MaskContentNeverAnError ==
    /\ \A i \in Tasks :
           pc[i] = "done" =>
               /\ incs[i] = (IF IoSucceeds(i) THEN [p |-> 1, e |-> 0] ELSE [p |-> 0, e |-> 1])
               /\ (IoSucceeds(i) /\ UniformPlane(i)) =>
                     /\ outcome[i] = "success"
                     /\ output_paths[i] \in files
                     /\ output_files[i] = output_paths[i]
    /\ Returned =>
           /\ \A i \in Tasks :
                  (IoSucceeds(i) /\ UniformPlane(i)) => output_paths[i] \in Range(Rep.output_files)
           /\ (num_images = 4 /\ \A i \in Tasks : IoSucceeds(i) /\ UniformPlane(i)) =>
                  /\ Rep.processed = 4
                  /\ Rep.errors = 0

C16_Witness ==
    /\ Returned
    /\ num_images = 4
    /\ \A i \in Tasks : IoSucceeds(i)
    /\ \A i \in Tasks : \A r \in 0 .. (height - 1), c \in 0 .. (width - 1) :
           batch_data[1].vol[i][r][c] = (IF i % 2 = 0 THEN 0 ELSE 255)
    /\ Rep.processed = 4
    /\ Rep.errors = 0
    /\ Len(Rep.output_files) = 4

(***************************************************************************)
(* Properties of sequences of calls.                                       *)
(***************************************************************************)
\* What get_optimization_info returns in a process that has made no call.
FreshMaxThreads == IF openmp THEN DefaultNthreads ELSE 1

\* C17: no state persists across calls: between two calls nothing of the
\* last call is left, a batch starts with its counters at zero and its
\* slots empty, and a probe returns what it returns in a process that has
\* made no batch call.
C17_NoStateAcrossCalls ==
    /\ phase = "idle" =>
          /\ processed = 0
          /\ errors = 0
          /\ output_files = <<>>
          /\ results = <<>>
    /\ (phase = "running" /\ next_i = 0) =>
          /\ processed = 0
          /\ errors = 0
          /\ \A i \in Tasks : output_files[i] = ""
    /\ info # <<>> => info[1].omp_max_threads = FreshMaxThreads

\* The same on the machines with at most ThreadCap hardware threads and in
\* the builds without OpenMP.
C17_HoldsWithinThreadCap ==
    (~openmp \/ (1 <= hw /\ hw <= ThreadCap)) => C17_NoStateAcrossCalls

\* C18: a batch call that passed the pre-flight checks returns its report,
\* every one of its tasks having ended with an outcome, provided the
\* library calls return and the threads keep being scheduled.
C18_BatchEventuallyReturns ==
    (phase = "running") ~>
        (Returned /\ \A i \in Tasks : pc[i] = "done" /\ outcome[i] # "none")

\* The same for the calls in a build without OpenMP, where the simd pragma
\* is ignored and no alignment is asserted.
C18_ReturnsWithoutOpenMP ==
    (phase = "running" /\ ~openmp) ~>
        (Returned /\ \A i \in Tasks : pc[i] = "done" /\ outcome[i] # "none")

\* No thread waits for another before the barrier: a claimed task that has
\* not ended can take its next step whatever the other tasks are doing.
C18_NoWaitBeforeJoin ==
    phase = "running" =>
        \A i \in Tasks :
            pc[i] \notin {"unclaimed", "done"} =>
                \/ ENABLED LoadImage(i)
                \/ ENABLED Composite(i)
                \/ ENABLED Imwrite(i)
                \/ ENABLED StoreSlot(i)
                \/ ENABLED CountProcessed(i)
                \/ ENABLED CountError(i)

\* The tasks whose read, dimension check and write succeeded: cv::imwrite
\* created their file.
WrittenTasks == {i \in Tasks : output_paths[i] \in files}

\* The output paths of a set of tasks in increasing order of index.
PathsByIndex(S) ==
    [k \in 1 .. Cardinality(S) |->
        output_paths[CHOOSE i \in S : Cardinality({j \in S : j < i}) = k - 1]]

\* C19: processed, errors and output_files of a report are a function of
\* the batch input and of the results of the library calls of each task
\* alone: the number of tasks whose calls succeeded, the number of the
\* others, and the paths of the former by index.  Neither the order in
\* which the threads ran nor their number enters, so two runs on the same
\* input with the same results end with equal counters and equal lists.
C19_ReportIndependentOfSchedule ==
    Returned =>
        /\ Rep.processed = Cardinality(WrittenTasks)
        /\ Rep.errors = num_images - Cardinality(WrittenTasks)
        /\ Rep.output_files = PathsByIndex(WrittenTasks)

C19_Witness ==
    /\ Returned
    /\ num_images = 3
    /\ team = 2
    /\ workers_used = 2
    /\ out_of_order
    /\ WrittenTasks = {1, 2}
    /\ Rep.output_files = <<OutName(1), OutName(2)>>

\* The same report from a team of one thread.
C19_SameReportSequential ==
    /\ Returned
    /\ num_images = 3
    /\ team = 1
    /\ ~out_of_order
    /\ WrittenTasks = {1, 2}
    /\ Rep.output_files = <<OutName(1), OutName(2)>>

\* A step in which get_optimization_info hands a dict to the caller.
ProbeReturns == info' # <<>> /\ info' # info

\* C20: get_optimization_info takes no input and changes no state: the step
\* in which it returns leaves the counters, the slots, the files, the
\* thread-count setting and everything else of the process as they were,
\* and its dict is made of the build and the runtime alone.  The batch does
\* not consult it: the thread count of a call is min(4,
\* hardware_concurrency()) whether or not a probe came before the call.
C20_ProbeIsPure ==
    [][/\ ProbeReturns =>
             /\ info'[1] = OptimizationInfo
             /\ UNCHANGED <<nthreads_var, build, one_task, others, phase, inputs, shared, pool,
                            pc, outcome, image, results, ghost>>
       /\ (phase = "idle" /\ phase' = "running") =>
             /\ max_threads' = Min(ThreadCap, hw)
             /\ team' = TeamSize(max_threads')
             /\ processed' = 0
             /\ errors' = 0]_vars

C20_Witness ==
    /\ phase = "idle"
    /\ openmp
    /\ hw = 8
    /\ nthreads_var = 4
    /\ info # <<>>
    /\ info[1].omp_max_threads = 4
    /\ info[1].hardware_concurrency = 8

(***************************************************************************)
(* Properties of repeated runs, of the slots and of the schedule.          *)
(***************************************************************************)
\* Runs a and b, a before b, of the same entry point, that ran to their end.
SamePathRuns(a, b) ==
    /\ a < b
    /\ runs[a].entry = runs[b].entry
    /\ runs[a].ended # "trap"
    /\ runs[b].ended # "trap"

\* C21: two runs of the compositor on the same image and mask, both in the
\* batch or both in create_rgba_single, end the same way and build the same
\* RGBA bytes, whatever their freshly allocated Mats held; and after the
\* second of two runs that write the output path, the file holds what it
\* held after the first.
C21_SameDataOnEveryRun ==
    \A a, b \in DOMAIN runs :
        SamePathRuns(a, b) =>
            /\ runs[b].ended = runs[a].ended
            /\ runs[b].rgba = runs[a].rgba
            /\ runs[b].file = runs[a].file
            /\ (b = Len(runs) /\ runs[b].file # NoData) => out_file = runs[a].file

C21_Witness ==
    /\ Len(runs) = 2
    /\ runs[1].entry = "batch"
    /\ runs[2].entry = "batch"
    /\ runs[1].alloc # runs[2].alloc
    /\ runs[1].ended = "success"
    /\ task_in.i = 1
    /\ out_file = runs[1].file
    /\ \E k \in DOMAIN out_file : k % 4 = 3 /\ out_file[k] = 0
    /\ \E k \in DOMAIN out_file : k % 4 = 3 /\ out_file[k] = 255

\* The same for two calls of create_rgba_single.
C21_SingleTwice ==
    /\ Len(runs) = 2
    /\ runs[1].entry = "single"
    /\ runs[2].entry = "single"
    /\ runs[1].alloc # runs[2].alloc
    /\ runs[1].ended = "true"
    /\ out_file = runs[2].file
    /\ out_file # NoData

\* A call in which the parallel region was entered and nothing has ended the
\* process.
InBatch == phase \in {"running", "returned"}

\* C22: in every state of a batch, slot i of output_files is empty or holds
\* output path i, and a filled slot belongs to a task that was claimed once
\* and whose imwrite succeeded; a slot changes only from empty, only in the
\* step of the iteration of task i that follows its successful imwrite, and
\* no step changes two slots.
C22_SlotWrittenOnceByItsTask ==
    /\ [](InBatch =>
            \A i \in Tasks :
                /\ output_files[i] \in {"", output_paths[i]}
                /\ output_files[i] # "" =>
                       /\ claims[i] = 1
                       /\ writes[i] = 1
                       /\ output_paths[i] \in files
                       /\ pc[i] \in {"count_processed", "done"})
    /\ [][(phase = "running" /\ phase' # "idle") =>
            \A i \in Tasks :
                output_files'[i] # output_files[i] =>
                    /\ output_files[i] = ""
                    /\ output_files'[i] = output_paths[i]
                    /\ pc[i] = "store_slot"
                    /\ pc'[i] = "count_processed"
                    /\ writes[i] = 1
                    /\ \A j \in Tasks \ {i} :
                           output_files'[j] = output_files[j] /\ pc'[j] = pc[j]]_vars

C22_Witness ==
    /\ phase = "running"
    /\ \E i, j, k \in Tasks :
          /\ i < j
          /\ output_files[j] = output_paths[j]
          /\ pc[i] = "store_slot"
          /\ output_files[i] = ""
          /\ outcome[k] = "write_failure"
          /\ output_files[k] = ""

\* C23: in every state of a batch every task has been claimed at most once,
\* read at most once and written at most once, the claimed tasks are those
\* below the loop counter, a returned call has claimed and processed every
\* task exactly once, and while a task is unclaimed and a thread of the
\* team is free the next task can be claimed, whatever the other iterations
\* are doing.
C23_EveryTaskClaimedOnce ==
    InBatch =>
        /\ next_i \in 0 .. num_images
        /\ \A i \in Tasks :
              /\ claims[i] \in {0, 1}
              /\ reads[i] <= claims[i]
              /\ writes[i] <= reads[i]
              /\ claims[i] = 1 <=> i < next_i
              /\ claims[i] = 0 <=> pc[i] = "unclaimed"
        /\ Returned =>
              \A i \in 0 .. (num_images - 1) :
                  /\ claims[i] = 1
                  /\ reads[i] = 1
                  /\ incs[i].p + incs[i].e = 1
                  /\ pc[i] = "done"
        /\ (phase = "running" /\ next_i < num_images /\ Cardinality(InProgress) < team) =>
              ENABLED Claim
        /\ (phase = "running" /\ next_i < num_images) => ~ENABLED Aggregate

\* A thread has finished task 1 and taken task 2 while task 0 is still being
\* read by the other thread.
C23_Witness ==
    /\ phase = "running"
    /\ num_images = 3
    /\ team = 2
    /\ workers_used = 2
    /\ pc[0] = "imread"
    /\ pc[1] = "done"
    /\ pc[2] = "composite"

\* C24: the dict is built in a state where every iteration has ended, from
\* the counters and the slots of that state; before that the call has no
\* dict; and from the step that builds the dict on, no counter, no slot and
\* no field of the dict changes while the call lasts.
C24_ReportBuiltAfterJoin ==
    /\ [](phase = "running" => results = <<>>)
    /\ [](Returned =>
            /\ \A i \in Tasks : pc[i] = "done"
            /\ Tasks = 0 .. (num_images - 1)
            /\ Rep.processed = processed
            /\ Rep.errors = errors
            /\ Rep.output_files = Compact(output_files, num_images)
            /\ processed + errors = num_images)
    /\ [][(phase = "running" /\ results' # results) =>
            /\ \A i \in Tasks : pc[i] = "done"
            /\ phase' = "returned"
            /\ UNCHANGED <<shared, pc, outcome, files>>]_vars
    /\ [][(Returned /\ phase' = "returned") => UNCHANGED <<shared, results, pc, files>>]_vars

C24_Witness ==
    /\ Returned
    /\ num_images = 3
    /\ out_of_order
    /\ workers_used >= 2
    /\ Rep.processed = 2
    /\ Rep.errors = 1
    /\ Len(Rep.output_files) = 2

\* The iterations that have ended.
Ended == {i \in Tasks : pc[i] = "done"}

\* C25: in every state of a batch processed and errors are at least 0 and
\* their sum is the number of iterations that have ended, which is at most
\* num_images; and no step of the batch lowers either counter.
C25_CountersMonotoneAndBounded ==
    /\ [](InBatch =>
            /\ processed >= 0
            /\ errors >= 0
            /\ processed + errors = Cardinality(Ended)
            /\ processed = Cardinality({i \in Ended : outcome[i] = "success"})
            /\ Cardinality(Ended) <= num_images)
    /\ [][(phase = "running" /\ phase' # "idle") =>
            /\ processed' \in {processed, processed + 1}
            /\ errors' \in {errors, errors + 1}
            /\ processed' + errors' <= processed + errors + 1]_vars

C25_Witness ==
    /\ phase = "running"
    /\ num_images = 3
    /\ processed = 1
    /\ errors = 1
    /\ Cardinality(Ended) = 2
    /\ \E i \in Tasks : pc[i] = "imwrite"

\* C26: the worker count a batch sets and the threads_used it reports are
\* at least 1, whatever std::thread::hardware_concurrency() returned.
C26_WorkerCountAtLeastOne ==
    /\ Started => max_threads >= 1
    /\ Returned => Rep.threads_used >= 1

\* The worker count is at least 1 where the hardware parallelism is known.
C26_HoldsWhereParallelismKnown ==
    (Started /\ hw >= 1) =>
        /\ max_threads >= 1
        /\ Returned => Rep.threads_used >= 1

\* The int t is the product p * h * w of the integers: the test divides, so
\* that no value larger than t is computed.
IsProduct(t, p, h, w) ==
    IF p = 0 THEN t = 0
    ELSE /\ t > 0
         /\ t % w = 0
         /\ (t \div w) % h = 0
         /\ (t \div w) \div h = p

\* The largest value of an int.
IntMax == 2147483647

\* C27: the total of line 232, the numerator of the throughput, is the
\* product processed * height * width of the integers, for every batch
\* size and mask shape the pre-flight checks accept.
C27_TotalPixelsIsTheProduct ==
    Returned =>
        IsProduct(Rep.throughput_mpix_per_sec.num, Rep.processed, height, width)

\* The total is the product where the product is an int.
C27_HoldsWhereProductFits ==
    (Returned /\ Rep.processed <= (IntMax \div width) \div height) =>
        IsProduct(Rep.throughput_mpix_per_sec.num, Rep.processed, height, width)

\* A batch the pre-flight checks accepted reports a negative throughput.
C27_NegativeThroughput ==
    /\ Returned
    /\ Rep.processed = 50
    /\ height = 6000
    /\ width = 8000
    /\ Rep.errors = 0
    /\ Rep.throughput_mpix_per_sec.num = -1894967296

\* The output paths are pairwise distinct and none is an image path.
PathsApart ==
    /\ \A i, j \in Tasks : i # j => output_paths[i] # output_paths[j]
    /\ \A i, j \in Tasks : output_paths[i] # ImagePath(j)

\* The file that was at image_paths[i] when the call was made.
OwnPhoto(i) == TwoPhotos[ImagePath(i)]

\* The composite of the photograph of task i and plane i of the volume.
OwnComposite(i) ==
    [k \in 0 .. (4 * height * width - 1) |->
        IF k % 4 = 3
        THEN (IF batch_data[1].vol[i][(k \div 4) \div width][(k \div 4) % width] > 0
              THEN 255 ELSE 0)
        ELSE OwnPhoto(i).data[3 * (k \div 4) + (2 - (k % 4))]]

\* The imwrite of task i has succeeded.
HasWritten(i) == pc[i] \in {"store_slot", "count_processed"} \/ outcome[i] = "success"

\* C28: when the output paths are pairwise distinct and none is an image
\* path, in every state of every interleaving the file at the output path
\* of a task whose write succeeded is the composite of the task's own image
\* and its own plane, no path has been written by two tasks and no task has
\* read a path another task has written.
C28_OwnDataAtOwnPath ==
    (Started /\ PathsApart) =>
        /\ \A i \in Tasks :
              HasWritten(i) =>
                  /\ output_paths[i] \in DOMAIN disk
                  /\ disk[output_paths[i]].data = OwnComposite(i)
                  /\ disk[output_paths[i]].channels = 4
        /\ \A a, b \in file_ops :
              (a[1] # b[1] /\ b[2] = "write") => a[3] # b[3]
        /\ \A a \in file_ops :
              /\ a[2] = "read" => a[3] = ImagePath(a[1])
              /\ a[2] = "write" => a[3] = output_paths[a[1]]

\* Task 1 has ended before task 0 and both files are on the disk, made from
\* one photograph and two different planes.
C28_Witness ==
    /\ Returned
    /\ PathsApart
    /\ ImagePath(0) = ImagePath(1)
    /\ out_of_order
    /\ processed = 2
    /\ workers_used = 2
    /\ disk[output_paths[0]] # disk[output_paths[1]]
    /\ Cardinality(file_ops) = 4

\* Without the condition on the paths: the file of a task is its own
\* composite also when two tasks share an output path or one reads what
\* the other writes.
C28_OwnDataWhateverThePaths ==
    Started =>
        \A i \in Tasks :
            (HasWritten(i) /\ ImagePath(i) \in DOMAIN TwoPhotos) =>
                disk[output_paths[i]].data = OwnComposite(i)

(***************************************************************************)
(* Properties of the upload page.                                          *)
(***************************************************************************)
\* C29: whenever uploadSuccess is true a file is selected and the title is
\* not empty, whatever the user did between the click on the button and
\* the completion timeout.
C29_SuccessHasFileAndTitle ==
    uploadSuccess => (selectedFile # "null" /\ Len(Trim(scanTitle)) > 0)

\* The form is valid in the step that starts an upload.
C29_ValidWhenUploadStarts ==
    [][(~isUploading /\ isUploading') => (IsFormValid /\ UNCHANGED <<selectedFile, scanTitle>>)]_vars

\* The success view of an upload whose file was removed while it ran.
C29_SuccessWithoutFile ==
    /\ uploadSuccess
    /\ selectedFile = "null"
    /\ scanTitle = <<"s">>

\* C30: uploadProgress is within 0 .. 100 in every state of the page.
C30_ProgressWithinBounds ==
    uploadProgress >= 0 /\ uploadProgress <= 100

\* uploadProgress stays below 100 + 15, and is 100 when the timeout has
\* called back.
C30_ProgressBelowOneTickMore ==
    /\ uploadProgress >= 0
    /\ uploadProgress < 100 + RandomScale
    /\ uploadSuccess => uploadProgress = 100

\* The eighth tick of an upload has taken the progress from 98 to 112.
C30_ProgressPastHundred ==
    /\ isUploading
    /\ ticks = 8
    /\ uploadProgress = 112

====
